---------------------------- MODULE Spec2Model ----------------------------
(***************************************************************************)
(* A model of the EnhancedTick plugin (UEnhancedTickSystem and the two     *)
(* batch structures FComponentTypeBatch and FSpatialEntityBatch) and of    *)
(* the TickAggregator subsystem of the same repository                     *)
(* (UTickAggregatorSubsystem), which share the world of engine objects.    *)
(*                                                                         *)
(* The scheduler state is the set of VARIABLES below.  Every public entry  *)
(* point of UEnhancedTickSystem is one action; UEnhancedTickSystem::Tick   *)
(* is one atomic action that performs the whole frame (flush, conditional  *)
(* refresh, priority sort, the seven tick groups, the spatial grid, the    *)
(* periodic optimizer).  The engine objects (components and actors) are    *)
(* the environment: a fixed world of objects whose liveness (IsValid) and  *)
(* activity (IsActive / IsActorTickEnabled) change by environment actions. *)
(*                                                                         *)
(* Engine containers are modelled by what the code relies on:              *)
(*  - TArray<FTickEntityData> is a buffer with a capacity.  The spatial    *)
(*    grid keeps raw FTickEntityData* into that buffer, so a pointer is a  *)
(*    record [Class, Buffer, Slot].  Growing past the capacity moves the   *)
(*    elements to a new buffer (the old pointers dangle); RemoveAt and the *)
(*    copy-back of SortForCacheLocality leave stale bytes in the slots     *)
(*    past the end.  Reading through a dangling or out-of-range pointer is *)
(*    undefined behaviour: the model lets it either read the stale bytes   *)
(*    or fault.                                                            *)
(*  - positions are integer triples in multiples of PosUnit world units;   *)
(*    distances are compared by their squares, which orders them exactly   *)
(*    as FVector::Distance does.                                           *)
(*  - measured durations (AverageTickTimeNs) and FApp::GetCurrentTime()    *)
(*    are inputs chosen by the environment.                                *)
(***************************************************************************)
EXTENDS Integers, Sequences, FiniteSets, Bags, TLC

VARIABLES
    valid,                  \* IsValid(Object), per engine object
    active,                 \* UActorComponent::IsActive / AActor::IsActorTickEnabled
    bCanEverTick,           \* PrimaryComponentTick.bCanEverTick, per component
    CurrentTimeLow,         \* FApp::GetCurrentTime() < 30.0f
    TypeBatches,            \* TMap<UClass*, FComponentTypeBatch>
    GroupedBatches,         \* TMap<ETickingGroup, TArray<FComponentTypeBatch*>>
    SpatialBatch,           \* FSpatialEntityBatch
    FreedBuffers,           \* released TickEntities buffers the grid still points into
    PendingRegistrations,   \* TArray<TPair<UObject*, ETickBatchFlags>>
    PendingUnregistrations, \* TArray<UObject*>
    FrameCounter,           \* int32 FrameCounter
    Stats,                  \* FTickStats (the registered-entity counter)
    bDebugMode,             \* bool bDebugMode
    bVerboseDebug,          \* bool bVerboseDebug
    crashed,                \* the process faulted on an invalid pointer
    TickCalls,              \* history: number of Tick calls made so far
    TickLog,                \* history: the invocations made by the last Tick call
    lastOp,                 \* history: the entry point called last
    cancelled,              \* history: objects registered and unregistered before a flush
    fnArgs,                 \* arguments of the last direct call of a batch/grid method
    fnResult,               \* its result
    PrimaryTickGroup,       \* PrimaryComponentTick.TickGroup / PrimaryActorTick.TickGroup
    GroupedComponents,      \* UTickAggregatorSubsystem::GroupedComponents
    GroupedActors,          \* UTickAggregatorSubsystem::GroupedActors
    GroupedObjectsCriticalSection   \* its FCriticalSection: owner thread and depth

vars == <<valid, active, bCanEverTick, CurrentTimeLow, TypeBatches, GroupedBatches,
          SpatialBatch, FreedBuffers, PendingRegistrations, PendingUnregistrations,
          FrameCounter, Stats, bDebugMode, bVerboseDebug, crashed, TickCalls, TickLog,
          lastOp, cancelled, fnArgs, fnResult, PrimaryTickGroup, GroupedComponents,
          GroupedActors, GroupedObjectsCriticalSection>>

\* The state of the TickAggregator subsystem and the tick groups it reads
aggVars == <<PrimaryTickGroup, GroupedComponents, GroupedActors,
             GroupedObjectsCriticalSection>>

-----------------------------------------------------------------------------
(* Bounds of the model *)

\* Number of plain (thread-safe) components in the world.
NumComp == 12
\* Number of character-movement components in the world.
NumMove == 11
\* Number of actors in the world.
NumActor == 1
\* Number of primitive components in the world.
NumPrim == 2
\* Longest pending registration / unregistration queue explored.
MaxPending == 2
\* Largest number of descriptors one-by-one registration puts in one batch.
MaxBatch == 2
\* Number of Tick calls explored.
MaxTicks == 9
\* Number of Tick calls explored when registrations and unregistrations interleave.
MainTicks == 3
\* World units per position step.
PosUnit == 1000
\* Longest entity sequence handed to a batch method directly.
MaxLen == 4
\* Largest query radius (in position steps).
MaxRadius == 3
\* Largest worker count.
MaxThreads == 3

-----------------------------------------------------------------------------
(* Program constants *)

FrameWrap == 1000
ThrottleEvery == 3
OptimizeEvery == 300
ParallelMinEntities == 10
ParallelTickTimeNs == 1000
SortMinEntities == 5
LowPrioTickTimeNs == 100
GridCellSize == 2000
CellMaskXY == 64
CellMaskZ == 16
ArrayFirstGrow == 4
ArrayConstantGrow == 16
PriorityPostPhysics == 200
PriorityDefault == 100

TickOrder == <<"TG_PrePhysics", "TG_StartPhysics", "TG_DuringPhysics", "TG_EndPhysics",
               "TG_PostPhysics", "TG_PostUpdateWork", "TG_LastDemotable">>

ETickBatchFlags == {"UseParallel", "CacheHot", "Conditional", "HighPrio", "LowPrio",
                    "SpatialAware", "StateDependent"}

-----------------------------------------------------------------------------
(* The world: engine objects and their classes *)

CompObjects == 1..NumComp
MoveObjects == (NumComp + 1)..(NumComp + NumMove)
ActorObjects == (NumComp + NumMove + 1)..(NumComp + NumMove + NumActor)
PrimObjects == (NumComp + NumMove + NumActor + 1)..(NumComp + NumMove + NumActor + NumPrim)
Components == CompObjects \cup MoveObjects \cup PrimObjects
Objects == Components \cup ActorObjects

\* Object->GetClass(): "Comp" is a plain UActorComponent subclass, "Move" is
\* UCharacterMovementComponent, "Pawn" is an AActor subclass, "Prim" is a
\* UPrimitiveComponent subclass.
ClassOf(o) == IF o \in CompObjects THEN "Comp"
              ELSE IF o \in MoveObjects THEN "Move"
                   ELSE IF o \in PrimObjects THEN "Prim" ELSE "Pawn"

Classes == {"Comp", "Move", "Pawn", "Prim"}

\* Cast<UActorComponent>(Object) succeeds
IsComponent(o) == o \in Components

\* Class->IsChildOf(UCharacterMovementComponent::StaticClass())
IsCharacterMovementClass(cls) == cls = "Move"

\* Class->IsChildOf(UAIPerceptionComponent::StaticClass())
IsAIPerceptionClass(cls) == FALSE

\* Object->IsA<UPrimitiveComponent>() || IsA<USceneComponent>() || IsA<UCharacterMovementComponent>()
IsThreadUnsafe(o) == ClassOf(o) \in {"Move", "Prim"}

\* IsChildOf(UPrimitiveComponent) || IsChildOf(UAIPerceptionComponent) ||
\* name contains "Spatial" or "Physics"
IsSpatialClass(cls) == cls = "Prim"

\* Actor->GetComponents(): the first actor owns the first plain component and the
\* first movement component.
ComponentsOf(a) == IF a = NumComp + NumMove + 1 THEN <<1, NumComp + 1>> ELSE <<>>

\* PrimaryComponentTick.TickGroup / PrimaryActorTick.TickGroup
TickGroupOf(o) == IF ClassOf(o) = "Pawn" THEN "TG_PostPhysics" ELSE "TG_PrePhysics"

\* Owner->GetActorLocation() (components) / Actor->GetActorLocation(), in position steps.
\* Objects 0 and 2 (mod 4) are equidistant from object 1 (mod 4); object 3 (mod 4)
\* lies 64 cells away on X, where the packed cell id wraps.
PositionOf(o) == CASE o % 4 = 1 -> <<1, 0, 0>>
                   [] o % 4 = 2 -> <<2, 0, 0>>
                   [] o % 4 = 3 -> <<128, 0, 0>>
                   [] OTHER -> <<0, 0, 0>>


-----------------------------------------------------------------------------
(* Helpers *)

Min(a, b) == IF a < b THEN a ELSE b

Max(a, b) == IF a > b THEN a ELSE b

\* FMath::CeilToInt(float(a) / b) for b > 0
CeilDiv(a, b) == -((-a) \div b)

Range(s) == {s[i] : i \in DOMAIN s}

\* TArray::RemoveAt(i)
RemoveAt(s, i) == SubSeq(s, 1, i - 1) \o SubSeq(s, i + 1, Len(s))

\* TArray::Remove(x): removes every element equal to x
RemoveAll(s, x) == SelectSeq(s, LAMBDA y : y # x)

\* The elements of s as a bag
BagOf(s) == [x \in Range(s) |-> Cardinality({i \in DOMAIN s : s[i] = x})]

\* Number of elements of s that satisfy Test
Count(s, Test(_)) == Cardinality({i \in DOMAIN s : Test(s[i])})

\* The sequence of the elements of a finite set of integers, ascending
RECURSIVE SetToSeq(_)
SetToSeq(S) == IF S = {} THEN <<>>
               ELSE LET m == CHOOSE x \in S : \A y \in S : x <= y
                    IN  <<m>> \o SetToSeq(S \ {m})

\* The value of e, taken once the value of v is known: the loops of the program
\* run step by step, and the folds that model them are evaluated step by step
After(v, e) == IF v = v THEN e ELSE e

\* In(v): the value of a call, held in a local of the program, is computed once and
\* named by the parameter of In
With(v, In(_)) == In(v)

\* In(v) for a value v that a loop of the program carries from one round to the next
Once(v, In(_)) == CHOOSE r \in {In(x) : x \in {v}} : TRUE

\* FVector::Distance, squared (position steps)
DistSquared(p, q) == (p[1] - q[1]) * (p[1] - q[1]) + (p[2] - q[2]) * (p[2] - q[2])
                     + (p[3] - q[3]) * (p[3] - q[3])

\* FTickEntityData::GetDistance, compared through its square
GetDistance(a, b) == DistSquared(a.Position, b.Position)

-----------------------------------------------------------------------------
(* FSpatialEntityBatch::CalculateGridCell *)

\* FMath::FloorToInt(Position.X / GridCellSize)
CellCoord(x) == (x * PosUnit) \div GridCellSize

\* ((CellX & 0x3F) << 10) | ((CellY & 0x3F) << 4) | (CellZ & 0xF)
PackCell(cx, cy, cz) == ((cx % CellMaskXY) * CellMaskXY * CellMaskZ)
                        + ((cy % CellMaskXY) * CellMaskZ) + (cz % CellMaskZ)

CalculateGridCell(Position) ==
    PackCell(CellCoord(Position[1]), CellCoord(Position[2]), CellCoord(Position[3]))

\* UEnhancedTickSystem::CalculateSpatialBucketId
CalculateSpatialBucketId(Position) == CalculateGridCell(Position)

-----------------------------------------------------------------------------
(* FTickEntityData and FComponentTypeBatch values *)

\* The descriptor built by the flush for object o
EntityData(o) ==
    [Object |-> o,
     Position |-> PositionOf(o),
     SpatialBucketId |-> CalculateSpatialBucketId(PositionOf(o)),
     Priority |-> IF IsComponent(o) /\ TickGroupOf(o) = "TG_PostPhysics"
                  THEN PriorityPostPhysics ELSE PriorityDefault,
     bEnabled |-> active[o]]

\* Entity.bEnabled && IsValid(Entity.Object)
IsActiveEntity(d) == d.bEnabled /\ valid[d.Object]

\* UEnhancedTickSystem::DetermineBestTickFunction
DetermineBestTickFunction(cls) ==
    IF IsCharacterMovementClass(cls) THEN "CharacterMovement" ELSE "Default"

\* FComponentTypeBatch(), then the first-registration block of the flush
NewBatch(cls, group, flags, fn) ==
    [TypeName |-> cls,
     Flags |-> flags,
     TickEntities |-> <<>>,
     StaleTail |-> <<>>,
     ArrayMax |-> 0,
     Buffer |-> 0,
     BatchTickFunction |-> fn,
     TickGroup |-> group,
     AverageTickTimeNs |-> 0,
     LastFrameTickCount |-> 0,
     bSortByCacheLocality |-> TRUE]

\* A variant of CanTickInParallel that holds whatever the flags
CanTickInParallelAlways(b) == b = b

\* FComponentTypeBatch::CanTickInParallel
CanTickInParallel(b) == "UseParallel" \in b.Flags

-----------------------------------------------------------------------------
(* TArray<FTickEntityData> as a buffer; raw FTickEntityData* as [Class, Buffer, Slot] *)

\* TArray's growth policy (DefaultCalculateSlackGrow): the first allocation holds
\* ArrayFirstGrow elements, a later one NumElements + 3*NumElements/8 + ArrayConstantGrow
CalculateSlackGrow(NumElements, NumAllocated) ==
    IF NumAllocated > 0
    THEN NumElements + (3 * NumElements) \div 8 + ArrayConstantGrow
    ELSE Max(NumElements, ArrayFirstGrow)

\* &Batch.TickEntities[i]
EntityPtr(b, i) == [Class |-> b.TypeName, Buffer |-> b.Buffer, Slot |-> i]

\* Every pointer the grid holds
GridPtrs(SB) == Range(SB.AllSpatialEntities)
                \cup UNION {Range(SB.GridCells[k]) : k \in DOMAIN SB.GridCells}

\* The grid's pointers into buffer buf of class cls
PtrsInto(SB, cls, buf) == {p \in GridPtrs(SB) : p.Class = cls /\ p.Buffer = buf}

\* The address of a fresh allocation: one no pointer of the grid refers to
NewBufferId(st, cls) ==
    LET used == {p.Buffer : p \in {q \in GridPtrs(st.SB) : q.Class = cls}}
                \cup {st.TB[cls].Buffer}
    IN  CHOOSE n \in 1..(Cardinality(used) + 1) :
            /\ n \notin used
            /\ \A m \in 1..(n - 1) : m \in used

\* The stale slots past the end that some pointer of the grid still refers to
LiveTail(st, cls, num, tail) ==
    LET slots == {p.Slot : p \in PtrsInto(st.SB, cls, st.TB[cls].Buffer)}
        hi == IF slots = {} THEN 0 ELSE CHOOSE x \in slots : \A y \in slots : y <= x
    IN  SubSeq(tail, 1, Min(Len(tail), Max(0, hi - num)))

\* The buffers released so far, with the bytes they held, kept while pointed into
Release(st, cls) ==
    LET b == st.TB[cls]
    IN  IF b.ArrayMax > 0 /\ PtrsInto(st.SB, cls, b.Buffer) # {}
        THEN (<<cls, b.Buffer>> :> (b.TickEntities \o b.StaleTail)) @@ st.FB
        ELSE st.FB

\* TArray::Add(d) on TypeBatches[cls].TickEntities
ArrayAdd(st, cls, d) ==
    LET b == st.TB[cls]
        n == Len(b.TickEntities)
    IN  IF n < b.ArrayMax
        THEN [st EXCEPT !.TB[cls].TickEntities = Append(@, d),
                        !.TB[cls].StaleTail = IF @ = <<>> THEN <<>> ELSE Tail(@)]
        ELSE [st EXCEPT !.FB = Release(st, cls),
                        !.TB[cls].TickEntities = Append(@, d),
                        !.TB[cls].StaleTail = <<>>,
                        !.TB[cls].ArrayMax = CalculateSlackGrow(n + 1, b.ArrayMax),
                        !.TB[cls].Buffer = NewBufferId(st, cls)]

\* TArray::RemoveAt(i) on TypeBatches[cls].TickEntities: the elements after i move
\* down, the last slot keeps its bytes; an array left empty releases its buffer
ArrayRemoveAt(st, cls, i) ==
    LET b == st.TB[cls]
        n == Len(b.TickEntities)
        tail == <<b.TickEntities[n]>> \o b.StaleTail
    IN  IF n = 1
        THEN [st EXCEPT !.FB = Release(st, cls),
                        !.TB[cls].TickEntities = <<>>,
                        !.TB[cls].StaleTail = <<>>,
                        !.TB[cls].ArrayMax = 0,
                        !.TB[cls].Buffer = 0]
        ELSE [st EXCEPT !.TB[cls].TickEntities = RemoveAt(@, i),
                        !.TB[cls].StaleTail = LiveTail(st, cls, n - 1, tail)]

\* TickEntities = SortedEntities: the copy reuses the buffer (it never holds more
\* elements than before); the slots past the new end keep their bytes
ArrayAssign(st, cls, sorted) ==
    LET b == st.TB[cls]
        n == Len(b.TickEntities)
        k == Len(sorted)
        tail == SubSeq(b.TickEntities, k + 1, n) \o b.StaleTail
    IN  [st EXCEPT !.TB[cls].TickEntities = sorted,
                   !.TB[cls].StaleTail = LiveTail(st, cls, k, tail)]

\* *Entity for a pointer of the grid: the element it refers to ("live"), the stale
\* bytes of a slot past the end or of a released buffer ("stale"), or nothing the
\* model knows ("wild")
Deref(st, p) ==
    LET cur == /\ p.Class \in DOMAIN st.TB
               /\ st.TB[p.Class].Buffer = p.Buffer
               /\ st.TB[p.Class].ArrayMax > 0
        mem == IF cur THEN st.TB[p.Class].TickEntities \o st.TB[p.Class].StaleTail
               ELSE IF <<p.Class, p.Buffer>> \in DOMAIN st.FB
                    THEN st.FB[<<p.Class, p.Buffer>>] ELSE <<>>
    IN  IF cur /\ p.Slot <= Len(st.TB[p.Class].TickEntities)
        THEN [Kind |-> "live", Data |-> mem[p.Slot]]
        ELSE IF p.Slot <= Len(mem)
             THEN [Kind |-> "stale", Data |-> mem[p.Slot]]
             ELSE [Kind |-> "wild", Data |-> <<>>]

-----------------------------------------------------------------------------
(* Invocations *)

\* Entity.TickFunction(DeltaTime): the lambda bound by the flush.  A component's
\* lambda runs TickComponent only while the component is active.
TickFunction(o, via, cls) ==
    [Object |-> o, Via |-> via, Batch |-> cls,
     Ran |-> IF IsComponent(o) THEN active[o] ELSE TRUE]

\* CMC->TickComponent(...) / Actor->Tick(...) called by a dispatch lambda directly
DirectTick(o, via, cls) == [Object |-> o, Via |-> via, Batch |-> cls, Ran |-> TRUE]

\* The number of invocations of object o in a log
Invocations(log, o) == Cardinality({i \in DOMAIN log : log[i].Object = o})

-----------------------------------------------------------------------------
(* FSpatialEntityBatch *)

\* FSpatialEntityBatch(): no cells, no members
EmptySpatialBatch == [GridCells |-> <<>>, AllSpatialEntities |-> <<>>]

\* FSpatialEntityBatch::AddEntity(&TickEntities[p.Slot]), p a pointer to a live element
AddEntity(st, p) ==
    LET GridCell == CalculateGridCell(st.TB[p.Class].TickEntities[p.Slot].Position)
        Cell == IF GridCell \in DOMAIN st.SB.GridCells
                THEN st.SB.GridCells[GridCell] ELSE <<>>
    IN  [st EXCEPT !.TB[p.Class].TickEntities[p.Slot].SpatialBucketId = GridCell,
                   !.SB.GridCells = (GridCell :> Append(Cell, p)) @@ @,
                   !.SB.AllSpatialEntities = Append(@, p)]

\* A variant of RemoveEntity that would keep a cell it has emptied
RemoveEntityKeepsCell(st, p) ==
    LET GridCell == st.TB[p.Class].TickEntities[p.Slot].SpatialBucketId
        cells == st.SB.GridCells
    IN  [st EXCEPT !.SB.GridCells =
                        IF GridCell \notin DOMAIN cells THEN cells
                        ELSE [cells EXCEPT ![GridCell] = RemoveAll(@, p)],
                   !.SB.AllSpatialEntities = RemoveAll(@, p)]

\* FSpatialEntityBatch::RemoveEntity(&TickEntities[p.Slot]), p a pointer to a live element
RemoveEntity(st, p) ==
    LET GridCell == st.TB[p.Class].TickEntities[p.Slot].SpatialBucketId
        cells == st.SB.GridCells
        Cell == RemoveAll(cells[GridCell], p)
    IN  [st EXCEPT !.SB.GridCells =
                        IF GridCell \notin DOMAIN cells THEN cells
                        ELSE IF Cell = <<>>
                             THEN [k \in DOMAIN cells \ {GridCell} |-> cells[k]]
                             ELSE [cells EXCEPT ![GridCell] = Cell],
                   !.SB.AllSpatialEntities = RemoveAll(@, p)]

\* The pointers of all cells, cell by cell
RECURSIVE CellPtrs(_, _)
CellPtrs(cells, keys) ==
    IF keys = <<>> THEN <<>>
    ELSE cells[Head(keys)] \o CellPtrs(cells, Tail(keys))

\* FSpatialEntityBatch::TickAllGrids: every member of every cell, read through its
\* pointer; a pointer that does not refer to a live element is undefined behaviour
\* (Fault: the read faults; otherwise it sees the stale bytes)
RECURSIVE TickGridPtrs(_, _, _)
TickGridPtrs(st, ptrs, Fault) ==
    IF ptrs = <<>> THEN [Log |-> <<>>, Crashed |-> FALSE]
    ELSE With(Deref(st, Head(ptrs)), LAMBDA r :
             IF r.Kind = "wild" \/ (r.Kind = "stale" /\ Fault)
             THEN [Log |-> <<>>, Crashed |-> TRUE]
             ELSE LET rest == TickGridPtrs(st, Tail(ptrs), Fault)
                      d == r.Data
                  IN  IF valid[d.Object] /\ d.bEnabled
                      THEN [rest EXCEPT !.Log = <<TickFunction(d.Object, "grid", "grid")>> \o @]
                      ELSE rest)

TickAllGrids(st, Fault) ==
    TickGridPtrs(st, CellPtrs(st.SB.GridCells, SetToSeq(DOMAIN st.SB.GridCells)), Fault)

-----------------------------------------------------------------------------
(* FComponentTypeBatch *)

\* A variant of NearestIndex that takes the last of several entities at the same
\* distance (Dist <= BestDistance)
NearestIndexLastTie(LastAdded, ValidEntities) ==
    CHOOSE BestIdx \in 1..Len(ValidEntities) :
        \A i \in 1..Len(ValidEntities) :
            \/ GetDistance(LastAdded, ValidEntities[BestIdx]) < GetDistance(LastAdded, ValidEntities[i])
            \/ /\ GetDistance(LastAdded, ValidEntities[BestIdx]) = GetDistance(LastAdded, ValidEntities[i])
               /\ BestIdx >= i

\* The inner loop of SortForCacheLocality: the index of the entity of ValidEntities
\* nearest to LastAdded; of several at the same distance, the first (Dist < BestDistance)
NearestIndex(LastAdded, ValidEntities) ==
    CHOOSE BestIdx \in 1..Len(ValidEntities) :
        \A i \in 1..Len(ValidEntities) :
            \/ GetDistance(LastAdded, ValidEntities[BestIdx]) < GetDistance(LastAdded, ValidEntities[i])
            \/ /\ GetDistance(LastAdded, ValidEntities[BestIdx]) = GetDistance(LastAdded, ValidEntities[i])
               /\ BestIdx <= i

\* The while loop of SortForCacheLocality
RECURSIVE NearestNeighbourChain(_, _)
NearestNeighbourChain(SortedEntities, ValidEntities) ==
    IF ValidEntities = <<>> THEN SortedEntities
    ELSE LET BestIdx == NearestIndex(SortedEntities[Len(SortedEntities)], ValidEntities)
         IN  NearestNeighbourChain(Append(SortedEntities, ValidEntities[BestIdx]),
                                   RemoveAt(ValidEntities, BestIdx))

\* The value SortForCacheLocality leaves in TickEntities
SortedOrder(TickEntities) ==
    IF Len(TickEntities) < 2 THEN TickEntities
    ELSE LET ValidEntities == SelectSeq(TickEntities, IsActiveEntity)
         IN  IF Len(ValidEntities) < 2 THEN TickEntities
             ELSE NearestNeighbourChain(<<ValidEntities[1]>>, Tail(ValidEntities))

\* FComponentTypeBatch::SortForCacheLocality on TypeBatches[cls]
SortForCacheLocality(st, cls) ==
    LET TickEntities == st.TB[cls].TickEntities
    IN  IF Len(TickEntities) < 2 \/ Len(SelectSeq(TickEntities, IsActiveEntity)) < 2
        THEN st
        ELSE ArrayAssign(st, cls, SortedOrder(TickEntities))

\* One call of a dispatch lambda on one entity of the active sequence
Dispatch(fn, d, via, cls) ==
    CASE fn = "Default" -> <<TickFunction(d.Object, via, cls)>>
      [] fn = "CharacterMovement" ->
            IF IsCharacterMovementClass(ClassOf(d.Object)) /\ d.bEnabled
            THEN <<DirectTick(d.Object, via, cls)>> ELSE <<>>
      [] fn = "AIPerception" ->
            IF IsAIPerceptionClass(ClassOf(d.Object)) /\ d.bEnabled
            THEN <<DirectTick(d.Object, via, cls)>> ELSE <<>>
      [] fn = "Actor" ->
            IF ~IsComponent(d.Object) THEN <<DirectTick(d.Object, via, cls)>> ELSE <<>>
      [] OTHER -> <<>>

\* BatchTickFunction(ActiveEntities, DeltaTime)
RECURSIVE BatchTickFunction(_, _, _)
BatchTickFunction(fn, ActiveEntities, cls) ==
    IF ActiveEntities = <<>> THEN <<>>
    ELSE Dispatch(fn, Head(ActiveEntities), "seq", cls)
         \o BatchTickFunction(fn, Tail(ActiveEntities), cls)

\* FComponentTypeBatch::TickBatch on TypeBatches[cls]; Ns is the measured duration
TickBatch(st, cls, Ns) ==
    LET b == st.TB[cls]
        st1 == [st EXCEPT !.TB[cls].LastFrameTickCount = 0]
    IN  IF Len(b.TickEntities) = 0 \/ b.BatchTickFunction = "None"
        THEN [St |-> st1, Log |-> <<>>]
        ELSE With(IF b.bSortByCacheLocality THEN SortForCacheLocality(st1, cls) ELSE st1,
                  LAMBDA st2 :
             IF "LowPrio" \in b.Flags /\ CurrentTimeLow
             THEN [St |-> st2, Log |-> <<>>]
             ELSE With(SelectSeq(st2.TB[cls].TickEntities, IsActiveEntity),
                       LAMBDA ActiveEntities :
                  IF Len(ActiveEntities) = 0
                  THEN [St |-> st2, Log |-> <<>>]
                  ELSE [St |-> [st2 EXCEPT !.TB[cls].AverageTickTimeNs = Ns,
                                           !.TB[cls].LastFrameTickCount = Len(ActiveEntities)],
                        Log |-> BatchTickFunction(b.BatchTickFunction, ActiveEntities, cls)]))

\* A variant of Shard that would round the shard size down
ShardRoundedDown(ActiveEntities, ThreadIdx, NumThreads) ==
    LET EntitiesPerThread == Max(1, Len(ActiveEntities) \div NumThreads)
        StartIdx == ThreadIdx * EntitiesPerThread
        EndIdx == Min(StartIdx + EntitiesPerThread, Len(ActiveEntities))
    IN  IF StartIdx >= EndIdx THEN <<>> ELSE SubSeq(ActiveEntities, StartIdx + 1, EndIdx)

\* The entities of shard ThreadIdx (0-based) of TickBatchParallel
Shard(ActiveEntities, ThreadIdx, NumThreads) ==
    LET EntitiesPerThread == Max(1, CeilDiv(Len(ActiveEntities), NumThreads))
        StartIdx == ThreadIdx * EntitiesPerThread
        EndIdx == Min(StartIdx + EntitiesPerThread, Len(ActiveEntities))
    IN  IF StartIdx >= EndIdx THEN <<>> ELSE SubSeq(ActiveEntities, StartIdx + 1, EndIdx)

\* The task of one shard: the bound callable of each of its entities
RECURSIVE ShardTask(_, _)
ShardTask(ThreadView, cls) ==
    IF ThreadView = <<>> THEN <<>>
    ELSE <<TickFunction(Head(ThreadView).Object, "par", cls)>> \o ShardTask(Tail(ThreadView), cls)

\* All shard tasks, joined; the invocations are listed shard by shard
RECURSIVE ShardTasks(_, _, _, _)
ShardTasks(ActiveEntities, ThreadIdx, NumThreads, cls) ==
    IF ThreadIdx >= NumThreads THEN <<>>
    ELSE ShardTask(Shard(ActiveEntities, ThreadIdx, NumThreads), cls)
         \o ShardTasks(ActiveEntities, ThreadIdx + 1, NumThreads, cls)

\* A variant of TickBatchParallel without the test for thread-unsafe components
TickBatchParallelUnchecked(st, cls, Ns, NumThreads) ==
    LET b == st.TB[cls]
        st1 == [st EXCEPT !.TB[cls].LastFrameTickCount = 0]
    IN  IF Len(b.TickEntities) = 0 \/ b.BatchTickFunction = "None" \/ ~CanTickInParallel(b)
        THEN TickBatch(st1, cls, Ns)
        ELSE With(IF b.bSortByCacheLocality THEN SortForCacheLocality(st1, cls) ELSE st1,
                  LAMBDA st2 :
             With(SelectSeq(st2.TB[cls].TickEntities, IsActiveEntity),
                  LAMBDA ActiveEntities :
                 IF Len(ActiveEntities) = 0
                 THEN [St |-> st2, Log |-> <<>>]
                 ELSE [St |-> [st2 EXCEPT !.TB[cls].AverageTickTimeNs = Ns,
                                          !.TB[cls].LastFrameTickCount = Len(ActiveEntities)],
                       Log |-> ShardTasks(ActiveEntities, 0, NumThreads, cls)]))

\* FComponentTypeBatch::TickBatchParallel on TypeBatches[cls]
TickBatchParallel(st, cls, Ns, NumThreads) ==
    LET b == st.TB[cls]
        st1 == [st EXCEPT !.TB[cls].LastFrameTickCount = 0]
    IN  IF Len(b.TickEntities) = 0 \/ b.BatchTickFunction = "None" \/ ~CanTickInParallel(b)
        THEN TickBatch(st1, cls, Ns)
        ELSE With(IF b.bSortByCacheLocality THEN SortForCacheLocality(st1, cls) ELSE st1,
                  LAMBDA st2 :
             With(SelectSeq(st2.TB[cls].TickEntities, IsActiveEntity),
                  LAMBDA ActiveEntities :
             LET bMightContainUnsafeComponents ==
                     \E i \in DOMAIN ActiveEntities : IsThreadUnsafe(ActiveEntities[i].Object)
             IN  IF Len(ActiveEntities) = 0
                 THEN [St |-> st2, Log |-> <<>>]
                 ELSE IF bMightContainUnsafeComponents
                      THEN TickBatch(st2, cls, Ns)
                      ELSE [St |-> [st2 EXCEPT !.TB[cls].AverageTickTimeNs = Ns,
                                               !.TB[cls].LastFrameTickCount = Len(ActiveEntities)],
                            Log |-> ShardTasks(ActiveEntities, 0, NumThreads, cls)]))

-----------------------------------------------------------------------------
(* FSpatialEntityBatch::GetNearbyEntities *)

\* FMath::CeilToInt(Radius / GridCellSize), Radius in position steps
GridRadius(Radius) == CeilDiv(Radius * PosUnit, GridCellSize)

\* A variant of NearbyGrids that scans the centre cell only
CentreGridOnly(Position, Radius) == <<CalculateGridCell(Position)>>

\* NearbyGrids: the centre cell, then the cells of the cube around it that lie inside
\* the grid bounds, in loop order (dx, dy, dz)
NearbyGrids(Position, Radius) ==
    LET CenterGridId == CalculateGridCell(Position)
        CenterX == (CenterGridId \div (CellMaskXY * CellMaskZ)) % CellMaskXY
        CenterY == (CenterGridId \div CellMaskZ) % CellMaskXY
        CenterZ == CenterGridId % CellMaskZ
        R == GridRadius(Radius)
        w == 2 * R + 1
        NbX(k) == CenterX + ((k - 1) \div (w * w)) - R
        NbY(k) == CenterY + (((k - 1) \div w) % w) - R
        NbZ(k) == CenterZ + ((k - 1) % w) - R
        InBounds(k) == ~(\/ NbX(k) < 0 \/ NbX(k) > CellMaskXY - 1
                         \/ NbY(k) < 0 \/ NbY(k) > CellMaskXY - 1
                         \/ NbZ(k) < 0 \/ NbZ(k) > CellMaskZ - 1)
        cube == [k \in 1..(w * w * w) |->
                    IF InBounds(k) THEN PackCell(NbX(k), NbY(k), NbZ(k)) ELSE -1]
    IN  <<CenterGridId>> \o SelectSeq(cube, LAMBDA g : g # -1 /\ g # CenterGridId)

\* A variant of NearbyOf without the distance test
RECURSIVE NearbyOfAnyDistance(_, _, _, _, _)
NearbyOfAnyDistance(st, ptrs, Position, Radius, Fault) ==
    IF ptrs = <<>> THEN [NearbyEntities |-> <<>>, Crashed |-> FALSE]
    ELSE With(Deref(st, Head(ptrs)), LAMBDA r :
             IF r.Kind = "wild" \/ (r.Kind = "stale" /\ Fault)
             THEN [NearbyEntities |-> <<>>, Crashed |-> TRUE]
             ELSE LET rest == NearbyOfAnyDistance(st, Tail(ptrs), Position, Radius, Fault)
                  IN  IF r.Data.bEnabled
                      THEN [rest EXCEPT !.NearbyEntities = <<Head(ptrs)>> \o @]
                      ELSE rest)

\* The filter loop over the pointers of the scanned cells; a pointer that does not
\* refer to a live element is undefined behaviour, as in TickAllGrids
RECURSIVE NearbyOf(_, _, _, _, _)
NearbyOf(st, ptrs, Position, Radius, Fault) ==
    IF ptrs = <<>> THEN [NearbyEntities |-> <<>>, Crashed |-> FALSE]
    ELSE With(Deref(st, Head(ptrs)), LAMBDA r :
             IF r.Kind = "wild" \/ (r.Kind = "stale" /\ Fault)
             THEN [NearbyEntities |-> <<>>, Crashed |-> TRUE]
             ELSE LET rest == NearbyOf(st, Tail(ptrs), Position, Radius, Fault)
                  IN  IF /\ r.Data.bEnabled
                         /\ DistSquared(Position, r.Data.Position) <= Radius * Radius
                      THEN [rest EXCEPT !.NearbyEntities = <<Head(ptrs)>> \o @]
                      ELSE rest)

GetNearbyEntities(st, Position, Radius, Fault) ==
    LET grids == SelectSeq(NearbyGrids(Position, Radius),
                           LAMBDA g : g \in DOMAIN st.SB.GridCells)
    IN  NearbyOf(st, CellPtrs(st.SB.GridCells, grids), Position, Radius, Fault)

-----------------------------------------------------------------------------
(* UEnhancedTickSystem::ProcessDeferredOperationsImpl *)

\* A variant of the body of the registration loop that would skip an object which
\* already has a descriptor in its batch
ProcessRegistrationOnce(st, Object, Flags) ==
    LET cls == ClassOf(Object)
        fn == IF IsComponent(Object) THEN DetermineBestTickFunction(cls) ELSE "Actor"
        st1 == IF cls \in DOMAIN st.TB THEN st
               ELSE [st EXCEPT !.TB = (cls :> NewBatch(cls, TickGroupOf(Object), Flags, fn)) @@ @,
                               !.GB[TickGroupOf(Object)] = Append(@, cls)]
    IN  IF ~valid[Object] THEN st
        ELSE IF \E i \in DOMAIN st1.TB[cls].TickEntities :
                    st1.TB[cls].TickEntities[i].Object = Object
             THEN st1
             ELSE With(ArrayAdd(st1, cls, EntityData(Object)), LAMBDA st2 :
                  LET st3 == IF "SpatialAware" \in Flags
                             THEN AddEntity(st2, EntityPtr(st2.TB[cls],
                                                           Len(st2.TB[cls].TickEntities)))
                             ELSE st2
                  IN  [st3 EXCEPT !.Stats.TotalRegisteredEntities = @ + 1])

\* A variant of the loop body that would store the flags of every registration in
\* the batch
ProcessRegistrationRetags(st, Object, Flags) ==
    LET cls == ClassOf(Object)
        fn == IF IsComponent(Object) THEN DetermineBestTickFunction(cls) ELSE "Actor"
        st1 == IF cls \in DOMAIN st.TB THEN [st EXCEPT !.TB[cls].Flags = Flags]
               ELSE [st EXCEPT !.TB = (cls :> NewBatch(cls, TickGroupOf(Object), Flags, fn)) @@ @,
                               !.GB[TickGroupOf(Object)] = Append(@, cls)]
    IN  IF ~valid[Object] THEN st
        ELSE With(ArrayAdd(st1, cls, EntityData(Object)), LAMBDA st2 :
             LET st3 == IF "SpatialAware" \in Flags
                        THEN AddEntity(st2, EntityPtr(st2.TB[cls], Len(st2.TB[cls].TickEntities)))
                        ELSE st2
             IN  [st3 EXCEPT !.Stats.TotalRegisteredEntities = @ + 1])

\* The body of the registration loop for one pending pair
ProcessRegistration(st, Object, Flags) ==
    LET cls == ClassOf(Object)
        fn == IF IsComponent(Object) THEN DetermineBestTickFunction(cls) ELSE "Actor"
        st1 == IF cls \in DOMAIN st.TB THEN st
               ELSE [st EXCEPT !.TB = (cls :> NewBatch(cls, TickGroupOf(Object), Flags, fn)) @@ @,
                               !.GB[TickGroupOf(Object)] = Append(@, cls)]
    IN  IF ~valid[Object] THEN st
        ELSE With(ArrayAdd(st1, cls, EntityData(Object)), LAMBDA st2 :
             LET st3 == IF "SpatialAware" \in Flags
                        THEN AddEntity(st2, EntityPtr(st2.TB[cls], Len(st2.TB[cls].TickEntities)))
                        ELSE st2
             IN  [st3 EXCEPT !.Stats.TotalRegisteredEntities = @ + 1])

\* The body of the unregistration loop for one pending object.  A descriptor of an
\* object is only ever stored in the batch of the object's class, so of all batches
\* only that one can hold a match; its first match is removed.
ProcessUnregistration(st, Object) ==
    LET cls == ClassOf(Object)
        hits == {i \in DOMAIN st.TB[cls].TickEntities : st.TB[cls].TickEntities[i].Object = Object}
    IN  IF ~valid[Object] \/ cls \notin DOMAIN st.TB THEN st
        ELSE IF hits = {} THEN st
             ELSE With(CHOOSE x \in hits : \A y \in hits : x <= y, LAMBDA i :
                  LET st1 == RemoveEntity(st, EntityPtr(st.TB[cls], i))
                      st2 == ArrayRemoveAt(st1, cls, i)
                  IN  [st2 EXCEPT !.Stats.TotalRegisteredEntities = @ - 1])

RECURSIVE ProcessRegistrations(_, _)
ProcessRegistrations(st, regs) ==
    IF regs = <<>> THEN st
    ELSE Once(ProcessRegistration(st, Head(regs)[1], Head(regs)[2]), LAMBDA st1 :
             ProcessRegistrations(st1, Tail(regs)))

RECURSIVE ProcessUnregistrations(_, _)
ProcessUnregistrations(st, unregs) ==
    IF unregs = <<>> THEN st
    ELSE After(st, ProcessUnregistrations(
                       ProcessUnregistration(st, Head(unregs)), Tail(unregs)))

\* All pending registrations, then all pending unregistrations; the caller empties
\* both queues
ProcessDeferredOperationsImpl(st, regs, unregs) ==
    ProcessUnregistrations(ProcessRegistrations(st, regs), unregs)

-----------------------------------------------------------------------------
(* UEnhancedTickSystem::UpdateConditionalTicks *)

\* Entity.bEnabled as refreshed for one descriptor of a Conditional batch
RefreshedEnabled(d) == IF ~valid[d.Object] THEN FALSE ELSE active[d.Object]

\* A variant of UpdateConditionalTicks that would refresh every batch
UpdateConditionalTicksEveryBatch(st) ==
    [st EXCEPT !.TB = [cls \in DOMAIN st.TB |->
        [st.TB[cls] EXCEPT !.TickEntities =
            [i \in DOMAIN st.TB[cls].TickEntities |->
                [st.TB[cls].TickEntities[i] EXCEPT !.bEnabled =
                    RefreshedEnabled(st.TB[cls].TickEntities[i])]]]]]

UpdateConditionalTicks(st) ==
    [st EXCEPT !.TB = [cls \in DOMAIN st.TB |->
        IF "Conditional" \notin st.TB[cls].Flags THEN st.TB[cls]
        ELSE [st.TB[cls] EXCEPT !.TickEntities =
                [i \in DOMAIN st.TB[cls].TickEntities |->
                    [st.TB[cls].TickEntities[i] EXCEPT !.bEnabled =
                        RefreshedEnabled(st.TB[cls].TickEntities[i])]]]]]

-----------------------------------------------------------------------------
(* UEnhancedTickSystem::SortBatchesByPriority *)

\* A variant of the predicate that would compare the sizes only
SortsBeforeBySize(A, B) == Len(A.TickEntities) > Len(B.TickEntities)

\* A variant of the predicate that would compare the priority flags only
SortsBeforeByFlags(A, B) ==
    LET bAHighPrio == "HighPrio" \in A.Flags
        bBHighPrio == "HighPrio" \in B.Flags
        bALowPrio == "LowPrio" \in A.Flags
        bBLowPrio == "LowPrio" \in B.Flags
    IN  IF bAHighPrio # bBHighPrio THEN bAHighPrio
        ELSE IF bALowPrio # bBLowPrio THEN bBLowPrio
             ELSE FALSE

\* The predicate handed to Batches.Sort: A goes before B
SortsBefore(A, B) ==
    LET bAHighPrio == "HighPrio" \in A.Flags
        bBHighPrio == "HighPrio" \in B.Flags
        bALowPrio == "LowPrio" \in A.Flags
        bBLowPrio == "LowPrio" \in B.Flags
    IN  IF bAHighPrio # bBHighPrio THEN bAHighPrio
        ELSE IF bALowPrio # bBLowPrio THEN bBLowPrio
             ELSE Len(A.TickEntities) > Len(B.TickEntities)

\* TArray::Sort on a short array (the small-range loop of the engine's introsort):
\* for each end position, from the last down, a scan keeps the element that goes
\* after the one kept so far, and the element kept is swapped to the end
RECURSIVE ScanMax(_, _, _, _, _)
ScanMax(Batches, MaxIdx, Item, hi, TB) ==
    IF Item > hi THEN MaxIdx
    ELSE ScanMax(Batches,
                 IF SortsBefore(TB[Batches[MaxIdx]], TB[Batches[Item]]) THEN Item ELSE MaxIdx,
                 Item + 1, hi, TB)

RECURSIVE SortRange(_, _, _)
SortRange(Batches, hi, TB) ==
    IF hi < 2 THEN Batches
    ELSE LET MaxIdx == ScanMax(Batches, 1, 2, hi, TB)
             swapped == [Batches EXCEPT ![MaxIdx] = Batches[hi], ![hi] = Batches[MaxIdx]]
         IN  SortRange(swapped, hi - 1, TB)

SortBatchesByPriority(st) ==
    [st EXCEPT !.GB = [g \in DOMAIN st.GB |-> SortRange(st.GB[g], Len(st.GB[g]), st.TB)]]

-----------------------------------------------------------------------------
(* UEnhancedTickSystem::TickGroupBatches *)

\* A variant of TickOneBatch without the low-priority throttle
TickOneBatchEveryFrame(st, cls, Frame, NsOf, NumThreads) ==
    LET Batch == st.TB[cls]
    IN  IF CanTickInParallel(Batch) /\ Len(Batch.TickEntities) > ParallelMinEntities
        THEN TickBatchParallel(st, cls, NsOf[cls], NumThreads)
        ELSE TickBatch(st, cls, NsOf[cls])

\* The loop body for one batch of the group; NsOf[cls] is the duration the batch
\* tick measures
TickOneBatch(st, cls, Frame, NsOf, NumThreads) ==
    LET Batch == st.TB[cls]
    IN  IF "LowPrio" \in Batch.Flags /\ (Frame % ThrottleEvery) # 0
        THEN [St |-> st, Log |-> <<>>]
        ELSE IF CanTickInParallel(Batch) /\ Len(Batch.TickEntities) > ParallelMinEntities
             THEN TickBatchParallel(st, cls, NsOf[cls], NumThreads)
             ELSE TickBatch(st, cls, NsOf[cls])

RECURSIVE TickBatchList(_, _, _, _, _)
TickBatchList(st, Batches, Frame, NsOf, NumThreads) ==
    IF Batches = <<>> THEN [St |-> st, Log |-> <<>>]
    ELSE With(TickOneBatch(st, Head(Batches), Frame, NsOf, NumThreads), LAMBDA r :
             LET rest == TickBatchList(r.St, Tail(Batches), Frame, NsOf, NumThreads)
             IN  After(r, [St |-> rest.St, Log |-> r.Log \o rest.Log]))

TickGroupBatches(st, Group, Frame, NsOf, NumThreads) ==
    TickBatchList(st, st.GB[Group], Frame, NsOf, NumThreads)

\* The loop over TickOrder in Tick
RECURSIVE TickGroups(_, _, _, _, _)
TickGroups(st, Groups, Frame, NsOf, NumThreads) ==
    IF Groups = <<>> THEN [St |-> st, Log |-> <<>>]
    ELSE With(TickGroupBatches(st, Head(Groups), Frame, NsOf, NumThreads), LAMBDA r :
             LET rest == TickGroups(r.St, Tail(Groups), Frame, NsOf, NumThreads)
             IN  After(r, [St |-> rest.St, Log |-> r.Log \o rest.Log]))

-----------------------------------------------------------------------------
(* The optimizer *)

\* A variant of AnalyzeBatch without the parallel promotion
AnalyzeBatchNoPromotion(Batch) ==
    LET f2 == IF Batch.AverageTickTimeNs < LowPrioTickTimeNs /\ "HighPrio" \notin Batch.Flags
              THEN Batch.Flags \cup {"LowPrio"} ELSE Batch.Flags
    IN  [Batch EXCEPT !.Flags = f2,
                      !.bSortByCacheLocality =
                          IF Len(Batch.TickEntities) < SortMinEntities THEN FALSE ELSE @]

\* A variant of AnalyzeBatch that leaves cache-locality sorting as it is
AnalyzeBatchKeepsSorting(Batch) ==
    LET f1 == IF /\ Batch.AverageTickTimeNs > ParallelTickTimeNs
                 /\ Len(Batch.TickEntities) > ParallelMinEntities
              THEN Batch.Flags \cup {"UseParallel"} ELSE Batch.Flags
        f2 == IF Batch.AverageTickTimeNs < LowPrioTickTimeNs /\ "HighPrio" \notin f1
              THEN f1 \cup {"LowPrio"} ELSE f1
    IN  [Batch EXCEPT !.Flags = f2]

\* The loop body of AnalyzeCurrentState for one batch
AnalyzeBatch(Batch) ==
    LET f1 == IF /\ Batch.AverageTickTimeNs > ParallelTickTimeNs
                 /\ Len(Batch.TickEntities) > ParallelMinEntities
              THEN Batch.Flags \cup {"UseParallel"} ELSE Batch.Flags
        f2 == IF Batch.AverageTickTimeNs < LowPrioTickTimeNs /\ "HighPrio" \notin f1
              THEN f1 \cup {"LowPrio"} ELSE f1
    IN  [Batch EXCEPT !.Flags = f2,
                      !.bSortByCacheLocality =
                          IF Len(Batch.TickEntities) < SortMinEntities THEN FALSE ELSE @]

AnalyzeCurrentState(st) ==
    [st EXCEPT !.TB = [cls \in DOMAIN st.TB |-> AnalyzeBatch(st.TB[cls])]]

\* The inner loop of ApplyOptimizationHints: AddEntity for the enabled, valid
\* descriptors of the batch from slot i on
RECURSIVE AddBatchToGrid(_, _, _)
AddBatchToGrid(st, cls, i) ==
    IF i > Len(st.TB[cls].TickEntities) THEN st
    ELSE After(st, AddBatchToGrid(IF IsActiveEntity(st.TB[cls].TickEntities[i])
                                  THEN AddEntity(st, EntityPtr(st.TB[cls], i)) ELSE st,
                                  cls, i + 1))

RECURSIVE ApplyHints(_, _)
ApplyHints(st, classes) ==
    IF classes = <<>> THEN st
    ELSE LET cls == Head(classes)
         IN  After(st, ApplyHints(
                 IF IsSpatialClass(cls) /\ "SpatialAware" \notin st.TB[cls].Flags
                 THEN AddBatchToGrid([st EXCEPT !.TB[cls].Flags = @ \cup {"SpatialAware"}],
                                     cls, 1)
                 ELSE st,
                 Tail(classes)))

\* The keys of TypeBatches, in the order the loop over the map visits them (taken
\* to be the order of the class list)
MapOrder(st) == SelectSeq(<<"Comp", "Move", "Pawn", "Prim">>, LAMBDA c : c \in DOMAIN st.TB)

ApplyOptimizationHints(st) == ApplyHints(st, MapOrder(st))

OptimizeCharacterMovementBatch(Batch) ==
    [Batch EXCEPT !.BatchTickFunction = "CharacterMovement",
                  !.Flags = (@ \ {"UseParallel"}) \cup {"SpatialAware"}]

OptimizeAIPerceptionBatch(Batch) ==
    [Batch EXCEPT !.BatchTickFunction = "AIPerception",
                  !.Flags = @ \cup {"SpatialAware"}]

\* The per-class loop of OptimizeBatches for one batch
OptimizeForType(cls, Batch) ==
    IF IsCharacterMovementClass(cls) THEN OptimizeCharacterMovementBatch(Batch)
    ELSE IF IsAIPerceptionClass(cls) THEN OptimizeAIPerceptionBatch(Batch)
         ELSE Batch

OptimizeBatches(st) ==
    With(ApplyOptimizationHints(AnalyzeCurrentState(st)), LAMBDA st1 :
        [st1 EXCEPT !.TB = [cls \in DOMAIN st1.TB |-> OptimizeForType(cls, st1.TB[cls])]])

-----------------------------------------------------------------------------
(* UEnhancedTickSystem::Tick *)

\* The scheduler's containers as one value
CurrentState == [TB |-> TypeBatches, GB |-> GroupedBatches, SB |-> SpatialBatch,
                 FB |-> FreedBuffers, Stats |-> Stats]

\* The body of Tick after the frame counter is advanced to Frame
\* A variant of the body of Tick that would run the optimizer, when due, before
\* the phases
TickFrameOptimizerFirst(st, Frame, regs, unregs, NsOf, NumThreads, Fault) ==
    With(SortBatchesByPriority(UpdateConditionalTicks(
             ProcessDeferredOperationsImpl(st, regs, unregs))), LAMBDA sorted :
    After(sorted,
    With(TickGroups(IF Frame % OptimizeEvery = 0 THEN OptimizeBatches(sorted) ELSE sorted,
                    TickOrder, Frame, NsOf, NumThreads), LAMBDA groups :
    After(groups,
    With(IF DOMAIN groups.St.SB.GridCells # {}
         THEN TickAllGrids(groups.St, Fault)
         ELSE [Log |-> <<>>, Crashed |-> FALSE], LAMBDA grid :
        [St |-> groups.St,
         Log |-> groups.Log \o grid.Log,
         Crashed |-> grid.Crashed])))))

TickFrame(st, Frame, regs, unregs, NsOf, NumThreads, Fault) ==
    With(SortBatchesByPriority(UpdateConditionalTicks(
             ProcessDeferredOperationsImpl(st, regs, unregs))), LAMBDA sorted :
    After(sorted,
    With(TickGroups(sorted, TickOrder, Frame, NsOf, NumThreads), LAMBDA groups :
    After(groups,
    With(IF DOMAIN groups.St.SB.GridCells # {}
         THEN TickAllGrids(groups.St, Fault)
         ELSE [Log |-> <<>>, Crashed |-> FALSE], LAMBDA grid :
        [St |-> IF ~grid.Crashed /\ Frame % OptimizeEvery = 0
                THEN OptimizeBatches(groups.St) ELSE groups.St,
         Log |-> groups.Log \o grid.Log,
         Crashed |-> grid.Crashed])))))

-----------------------------------------------------------------------------
(* Initial states *)

\* The TickAggregator subsystem after its constructor: an empty list of components
\* and of actors for each of the seven tick groups, the critical section free; every
\* object in the tick group of its class
FreshAggregator ==
    /\ PrimaryTickGroup = [o \in Objects |-> TickGroupOf(o)]
    /\ GroupedComponents = [g \in Range(TickOrder) |-> <<>>]
    /\ GroupedActors = [g \in Range(TickOrder) |-> <<>>]
    /\ GroupedObjectsCriticalSection = [Owner |-> "none", Count |-> 0]

\* The scheduler after its constructor and Initialize
FreshScheduler ==
    /\ TypeBatches = <<>>
    /\ GroupedBatches = [g \in Range(TickOrder) |-> <<>>]
    /\ SpatialBatch = EmptySpatialBatch
    /\ FreedBuffers = <<>>
    /\ PendingRegistrations = <<>>
    /\ PendingUnregistrations = <<>>
    /\ FrameCounter = 0
    /\ Stats = [TotalRegisteredEntities |-> 0]
    /\ bDebugMode = FALSE
    /\ FreshAggregator
    /\ bVerboseDebug = FALSE

\* No entry point called yet
NoHistory ==
    /\ crashed = FALSE
    /\ TickCalls = 0
    /\ TickLog = <<>>
    /\ lastOp = "Init"
    /\ cancelled = {}
    /\ fnArgs = <<>>
    /\ fnResult = <<>>

\* Every object alive, active and ticking on its own
FreshWorld ==
    /\ valid = [o \in Objects |-> TRUE]
    /\ active = [o \in Objects |-> TRUE]
    /\ bCanEverTick = [o \in Components |-> TRUE]

Init ==
    /\ FreshWorld
    /\ CurrentTimeLow \in BOOLEAN
    /\ FreshScheduler
    /\ NoHistory

-----------------------------------------------------------------------------
(* Entry points *)

\* Number of entries of object o in the registration queue q
PendingCount(q, o) == Cardinality({i \in DOMAIN q : q[i][1] = o})

\* Number of descriptors of object o in its batch
DescriptorCount(o) ==
    IF ClassOf(o) \in DOMAIN TypeBatches
    THEN Cardinality({i \in DOMAIN TypeBatches[ClassOf(o)].TickEntities :
                        TypeBatches[ClassOf(o)].TickEntities[i].Object = o})
    ELSE 0

\* Number of descriptors held or about to be held by the batch of class cls
BatchLoad(cls) ==
    (IF cls \in DOMAIN TypeBatches THEN Len(TypeBatches[cls].TickEntities) ELSE 0)
    + Cardinality({i \in DOMAIN PendingRegistrations : ClassOf(PendingRegistrations[i][1]) = cls})

\* The flags RegisterComponent queues: UseParallel is stripped for thread-unsafe components
QueuedFlags(Component, Flags) ==
    IF IsThreadUnsafe(Component) THEN Flags \ {"UseParallel"} ELSE Flags

\* A registration that would create the descriptor at once instead of waiting
\* for the flush
RegisterComponentEager(Component, Flags) ==
    /\ ~crashed
    /\ Len(PendingRegistrations) < MaxPending
    /\ BatchLoad(ClassOf(Component)) < MaxBatch
    /\ valid[Component]
    /\ lastOp' = "RegisterComponent"
    /\ UNCHANGED aggVars
    /\ UNCHANGED <<bDebugMode, bVerboseDebug>>
    /\ PendingRegistrations' =
           Append(PendingRegistrations, <<Component, QueuedFlags(Component, Flags)>>)
    /\ With(ProcessRegistration(CurrentState, Component, QueuedFlags(Component, Flags)),
            LAMBDA st :
           /\ TypeBatches' = st.TB
           /\ GroupedBatches' = st.GB
           /\ SpatialBatch' = st.SB
           /\ FreedBuffers' = st.FB
           /\ Stats' = st.Stats)
    /\ bCanEverTick' = [bCanEverTick EXCEPT ![Component] = FALSE]
    /\ UNCHANGED <<valid, active, CurrentTimeLow, PendingUnregistrations, FrameCounter,
                   crashed, TickCalls, TickLog, cancelled, fnArgs, fnResult>>

RegisterComponent(Component, Flags) ==
    /\ ~crashed
    /\ Len(PendingRegistrations) < MaxPending
    /\ BatchLoad(ClassOf(Component)) < MaxBatch
    /\ lastOp' = "RegisterComponent"
    /\ UNCHANGED aggVars
    /\ UNCHANGED <<bDebugMode, bVerboseDebug>>
    /\ IF ~valid[Component]
       THEN UNCHANGED <<PendingRegistrations, bCanEverTick, cancelled>>
       ELSE /\ PendingRegistrations' =
                   Append(PendingRegistrations, <<Component, QueuedFlags(Component, Flags)>>)
            /\ bCanEverTick' = [bCanEverTick EXCEPT ![Component] = FALSE]
            /\ cancelled' = cancelled \ {Component}
    /\ UNCHANGED <<valid, active, CurrentTimeLow, TypeBatches, GroupedBatches, SpatialBatch,
                   FreedBuffers, PendingUnregistrations, FrameCounter, Stats, crashed,
                   TickCalls, TickLog, fnArgs, fnResult>>

UnregisterComponent(Component) ==
    /\ ~crashed
    /\ Len(PendingUnregistrations) < MaxPending
    /\ lastOp' = "UnregisterComponent"
    /\ UNCHANGED aggVars
    /\ UNCHANGED <<bDebugMode, bVerboseDebug>>
    /\ IF ~valid[Component]
       THEN UNCHANGED <<PendingUnregistrations, bCanEverTick, cancelled>>
       ELSE /\ PendingUnregistrations' = Append(PendingUnregistrations, Component)
            /\ bCanEverTick' = [bCanEverTick EXCEPT ![Component] = TRUE]
            /\ cancelled' = IF /\ PendingCount(PendingRegistrations, Component) = 1
                               /\ DescriptorCount(Component) = 0
                            THEN cancelled \cup {Component} ELSE cancelled
    /\ UNCHANGED <<valid, active, CurrentTimeLow, TypeBatches, GroupedBatches, SpatialBatch,
                   FreedBuffers, PendingRegistrations, FrameCounter, Stats, crashed,
                   TickCalls, TickLog, fnArgs, fnResult>>

Tick(NsOf, NumThreads, Fault) ==
    /\ ~crashed
    /\ TickCalls < MaxTicks
    /\ FrameCounter' = (FrameCounter + 1) % FrameWrap
    /\ With(TickFrame(CurrentState, (FrameCounter + 1) % FrameWrap, PendingRegistrations,
                      PendingUnregistrations, NsOf, NumThreads, Fault), LAMBDA r :
           /\ TypeBatches' = r.St.TB
           /\ GroupedBatches' = r.St.GB
           /\ SpatialBatch' = r.St.SB
           /\ FreedBuffers' = r.St.FB
           /\ Stats' = r.St.Stats
           /\ TickLog' = r.Log
           /\ crashed' = r.Crashed)
    /\ PendingRegistrations' = <<>>
    /\ PendingUnregistrations' = <<>>
    /\ TickCalls' = TickCalls + 1
    /\ lastOp' = "Tick"
    /\ UNCHANGED aggVars
    /\ UNCHANGED <<bDebugMode, bVerboseDebug>>
    /\ UNCHANGED <<valid, active, bCanEverTick, CurrentTimeLow, cancelled, fnArgs, fnResult>>

\* The pairs RegisterActor queues after the actor's own: one for each valid
\* component of the actor that still ticks on its own
ActorComponentPairs(Actor, Flags) ==
    LET comps == SelectSeq(ComponentsOf(Actor), LAMBDA c : valid[c] /\ bCanEverTick[c])
    IN  [i \in DOMAIN comps |-> <<comps[i], Flags>>]

RegisterActor(Actor, Flags, bIncludeComponents) ==
    /\ ~crashed
    /\ lastOp' = "RegisterActor"
    /\ UNCHANGED aggVars
    /\ UNCHANGED <<bDebugMode, bVerboseDebug>>
    /\ IF ~valid[Actor]
       THEN UNCHANGED <<PendingRegistrations, bCanEverTick, active, cancelled>>
       ELSE LET pairs == IF bIncludeComponents THEN ActorComponentPairs(Actor, Flags) ELSE <<>>
                queued == {pairs[i][1] : i \in DOMAIN pairs}
            IN  /\ PendingRegistrations' = PendingRegistrations \o <<<<Actor, Flags>>>> \o pairs
                /\ bCanEverTick' = [c \in Components |->
                                        IF c \in queued THEN FALSE ELSE bCanEverTick[c]]
                /\ active' = [active EXCEPT ![Actor] = FALSE]
                /\ cancelled' = cancelled \ ({Actor} \cup queued)
    /\ UNCHANGED <<valid, CurrentTimeLow, TypeBatches, GroupedBatches, SpatialBatch,
                   FreedBuffers, PendingUnregistrations, FrameCounter, Stats, crashed,
                   TickCalls, TickLog, fnArgs, fnResult>>

\* GetComponents(ComponentClass) over the actors of the world, filtered as the loop
\* of RegisterAllComponentsOfType filters: the components RegisterComponent is called on
ComponentsToRegister(ComponentClass) ==
    SetToSeq({c \in Components : ClassOf(c) = ComponentClass /\ valid[c] /\ bCanEverTick[c]})

RegisterAllComponentsOfType(ComponentClass, Flags) ==
    /\ ~crashed
    /\ lastOp' = "RegisterAllComponentsOfType"
    /\ UNCHANGED aggVars
    /\ UNCHANGED <<bDebugMode, bVerboseDebug>>
    /\ LET comps == ComponentsToRegister(ComponentClass)
       IN  /\ PendingRegistrations' = PendingRegistrations \o
                   [i \in DOMAIN comps |-> <<comps[i], QueuedFlags(comps[i], Flags)>>]
           /\ bCanEverTick' = [c \in Components |->
                                   IF c \in Range(comps) THEN FALSE ELSE bCanEverTick[c]]
           /\ cancelled' = cancelled \ Range(comps)
    /\ UNCHANGED <<valid, active, CurrentTimeLow, TypeBatches, GroupedBatches, SpatialBatch,
                   FreedBuffers, PendingUnregistrations, FrameCounter, Stats, crashed,
                   TickCalls, TickLog, fnArgs, fnResult>>

UnregisterActor(Actor, bIncludeComponents) ==
    /\ ~crashed
    /\ lastOp' = "UnregisterActor"
    /\ UNCHANGED aggVars
    /\ UNCHANGED <<bDebugMode, bVerboseDebug>>
    /\ IF ~valid[Actor]
       THEN UNCHANGED <<PendingUnregistrations, bCanEverTick, active>>
       ELSE LET comps == IF bIncludeComponents
                         THEN SelectSeq(ComponentsOf(Actor), LAMBDA c : valid[c]) ELSE <<>>
            IN  /\ PendingUnregistrations' = PendingUnregistrations \o <<Actor>> \o comps
                /\ bCanEverTick' = [c \in Components |->
                                        IF c \in Range(comps) THEN TRUE ELSE bCanEverTick[c]]
                /\ active' = [active EXCEPT ![Actor] = TRUE]
    /\ UNCHANGED <<valid, CurrentTimeLow, TypeBatches, GroupedBatches, SpatialBatch,
                   FreedBuffers, PendingRegistrations, FrameCounter, Stats, crashed,
                   TickCalls, TickLog, cancelled, fnArgs, fnResult>>

\* A call of OptimizeBatches from outside Tick
OptimizeBatchesCall ==
    /\ ~crashed
    /\ lastOp' = "OptimizeBatches"
    /\ UNCHANGED aggVars
    /\ UNCHANGED <<bDebugMode, bVerboseDebug>>
    /\ With(OptimizeBatches(CurrentState), LAMBDA st :
           /\ TypeBatches' = st.TB
           /\ SpatialBatch' = st.SB
           /\ Stats' = st.Stats)
    /\ UNCHANGED <<valid, active, bCanEverTick, CurrentTimeLow, GroupedBatches, FreedBuffers,
                   PendingRegistrations, PendingUnregistrations, FrameCounter, crashed,
                   TickCalls, TickLog, cancelled, fnArgs, fnResult>>

\* A call of SpatialBatch.GetNearbyEntities(Position, Radius)
Query(Position, Radius, Fault) ==
    /\ ~crashed
    /\ With(GetNearbyEntities(CurrentState, Position, Radius, Fault), LAMBDA r :
           /\ fnArgs' = [Position |-> Position, Radius |-> Radius]
           /\ fnResult' = r.NearbyEntities
           /\ crashed' = r.Crashed)
    /\ lastOp' = "GetNearbyEntities"
    /\ UNCHANGED aggVars
    /\ UNCHANGED <<bDebugMode, bVerboseDebug>>
    /\ UNCHANGED <<valid, active, bCanEverTick, CurrentTimeLow, TypeBatches, GroupedBatches,
                   SpatialBatch, FreedBuffers, PendingRegistrations, PendingUnregistrations,
                   FrameCounter, Stats, TickCalls, TickLog, cancelled>>

-----------------------------------------------------------------------------
(* The world around the scheduler *)

\* The engine destroys an object: IsValid(o) is false from now on
DestroyObject(o) ==
    /\ ~crashed
    /\ valid[o]
    /\ valid' = [valid EXCEPT ![o] = FALSE]
    /\ lastOp' = "Destroy"
    /\ UNCHANGED aggVars
    /\ UNCHANGED <<bDebugMode, bVerboseDebug>>
    /\ UNCHANGED <<active, bCanEverTick, CurrentTimeLow, TypeBatches, GroupedBatches,
                   SpatialBatch, FreedBuffers, PendingRegistrations, PendingUnregistrations,
                   FrameCounter, Stats, crashed, TickCalls, TickLog, cancelled, fnArgs,
                   fnResult>>

\* Component->Activate() / Deactivate()
SetActive(o, bNewActive) ==
    /\ ~crashed
    /\ valid[o]
    /\ active[o] # bNewActive
    /\ active' = [active EXCEPT ![o] = bNewActive]
    /\ lastOp' = "SetActive"
    /\ UNCHANGED aggVars
    /\ UNCHANGED <<bDebugMode, bVerboseDebug>>
    /\ UNCHANGED <<valid, bCanEverTick, CurrentTimeLow, TypeBatches, GroupedBatches,
                   SpatialBatch, FreedBuffers, PendingRegistrations, PendingUnregistrations,
                   FrameCounter, Stats, crashed, TickCalls, TickLog, cancelled, fnArgs,
                   fnResult>>

\* The application clock passes 30 seconds
ClockPasses ==
    /\ ~crashed
    /\ CurrentTimeLow
    /\ CurrentTimeLow' = FALSE
    /\ lastOp' = "Clock"
    /\ UNCHANGED aggVars
    /\ UNCHANGED <<bDebugMode, bVerboseDebug>>
    /\ UNCHANGED <<valid, active, bCanEverTick, TypeBatches, GroupedBatches, SpatialBatch,
                   FreedBuffers, PendingRegistrations, PendingUnregistrations, FrameCounter,
                   Stats, crashed, TickCalls, TickLog, cancelled, fnArgs, fnResult>>

-----------------------------------------------------------------------------
(* The scheduler driven through its entry points *)

\* Two components of one class, in neighbouring cells
MainObjects == {1, 2}

MainFlags == {{}, {"SpatialAware"}}

\* Every batch tick measures the same duration
MainNs == [cls \in Classes |-> 500]

Next ==
    \/ \E o \in MainObjects, f \in MainFlags : RegisterComponent(o, f)
    \/ \E o \in MainObjects : UnregisterComponent(o)
    \/ \E Fault \in BOOLEAN : TickCalls < MainTicks /\ Tick(MainNs, 1, Fault)

Spec == Init /\ [][Next]_vars

-----------------------------------------------------------------------------
(* Properties of the scheduler driven through its entry points *)

\* The batch of class cls is a low-priority batch that frame Frame throttles
IsThrottled(cls, Frame) ==
    "LowPrio" \in TypeBatches[cls].Flags /\ (Frame % ThrottleEvery) # 0

\* C1: after every Tick call, every object with a descriptor in a batch that is
\* enabled and valid, and whose batch is not a low-priority batch throttled on that
\* frame, has been invoked exactly once during the call, whatever flags it was
\* registered with.
C1_InvokedExactlyOnce ==
    (lastOp = "Tick" /\ ~crashed) =>
        \A cls \in DOMAIN TypeBatches :
            \A i \in DOMAIN TypeBatches[cls].TickEntities :
                LET d == TypeBatches[cls].TickEntities[i]
                IN  (IsActiveEntity(d) /\ ~IsThrottled(cls, FrameCounter))
                        => Invocations(TickLog, d.Object) = 1

\* C3: an object registered and then unregistered before the next flush, with no
\* other registration of it pending or present, is not invoked by any later Tick call.
C3_CancelledNeverInvoked ==
    lastOp = "Tick" => \A o \in cancelled : Invocations(TickLog, o) = 0

-----------------------------------------------------------------------------
(* The throttle of low-priority batches over the first Tick calls *)

ThrottleObjects == {1, 2}

ThrottleFlags == {{"LowPrio"}, {"LowPrio", "UseParallel"}, {}}

NextThrottle ==
    \/ \E f \in ThrottleFlags : RegisterAllComponentsOfType("Comp", f)
    \/ \E o \in ThrottleObjects : DestroyObject(o)
    \/ ClockPasses
    \/ \E n \in 1..MaxThreads : Tick(MainNs, n, FALSE)

SpecThrottle == Init /\ [][NextThrottle]_vars

\* The number of invocations of object o a log holds that a batch tick made
BatchInvocations(log, o) ==
    Cardinality({i \in DOMAIN log : log[i].Object = o /\ log[i].Via # "grid"})

\* The batch tick of class cls went down the parallel path in the last Tick call
WentParallel(log, cls) == \E i \in DOMAIN log : log[i].Batch = cls /\ log[i].Via = "par"

-----------------------------------------------------------------------------
(* The batch methods called on batches a flush has filled *)

\* The containers of a scheduler nothing was registered with
FreshContainers ==
    [TB |-> <<>>, GB |-> [g \in Range(TickOrder) |-> <<>>], SB |-> EmptySpatialBatch,
     FB |-> <<>>, Stats |-> [TotalRegisteredEntities |-> 0]]

\* The sequences of at most n elements of S
SeqsUpTo(S, n) == UNION {[1..k -> S] : k \in 0..n}

\* The scheduler as the flush of its first Tick call leaves it when the queue held
\* the pairs regs, the objects of inactive being inactive at that time
AfterFirstFlush(regs, inactive) ==
    /\ valid = [o \in Objects |-> TRUE]
    /\ active = [o \in Objects |-> o \notin inactive]
    /\ bCanEverTick = [c \in Components |-> c \notin {regs[i][1] : i \in DOMAIN regs}]
    /\ With(ProcessRegistrations(FreshContainers, regs), LAMBDA st :
           /\ TypeBatches = st.TB
           /\ GroupedBatches = st.GB
           /\ SpatialBatch = st.SB
           /\ FreedBuffers = st.FB
           /\ Stats = st.Stats)
    /\ PendingRegistrations = <<>>
    /\ PendingUnregistrations = <<>>
    /\ FrameCounter = 1
    /\ bDebugMode = FALSE
    /\ FreshAggregator
    /\ bVerboseDebug = FALSE
    /\ NoHistory

\* A direct call of Batch.SortForCacheLocality()
CallSortForCacheLocality(cls) ==
    /\ ~crashed
    /\ cls \in DOMAIN TypeBatches
    /\ With(SortForCacheLocality(CurrentState, cls), LAMBDA st :
           /\ TypeBatches' = st.TB
           /\ fnArgs' = TypeBatches[cls].TickEntities
           /\ fnResult' = st.TB[cls].TickEntities)
    /\ lastOp' = "SortForCacheLocality"
    /\ UNCHANGED aggVars
    /\ UNCHANGED <<bDebugMode, bVerboseDebug>>
    /\ UNCHANGED <<valid, active, bCanEverTick, CurrentTimeLow, GroupedBatches, SpatialBatch,
                   FreedBuffers, PendingRegistrations, PendingUnregistrations, FrameCounter,
                   Stats, crashed, TickCalls, TickLog, cancelled>>

\* A direct call of Batch.TickBatch(DeltaTime)
CallTickBatch(cls, Ns) ==
    /\ ~crashed
    /\ cls \in DOMAIN TypeBatches
    /\ With(TickBatch(CurrentState, cls, Ns), LAMBDA r :
           /\ TypeBatches' = r.St.TB
           /\ fnArgs' = [St |-> CurrentState, Class |-> cls, Ns |-> Ns]
           /\ fnResult' = r.Log)
    /\ lastOp' = "TickBatch"
    /\ UNCHANGED aggVars
    /\ UNCHANGED <<bDebugMode, bVerboseDebug>>
    /\ UNCHANGED <<valid, active, bCanEverTick, CurrentTimeLow, GroupedBatches, SpatialBatch,
                   FreedBuffers, PendingRegistrations, PendingUnregistrations, FrameCounter,
                   Stats, crashed, TickCalls, TickLog, cancelled>>

\* A direct call of Batch.TickBatchParallel(DeltaTime) with NumThreads workers
CallTickBatchParallel(cls, Ns, NumThreads) ==
    /\ ~crashed
    /\ cls \in DOMAIN TypeBatches
    /\ With(TickBatchParallel(CurrentState, cls, Ns, NumThreads), LAMBDA r :
           /\ TypeBatches' = r.St.TB
           /\ fnArgs' = [St |-> CurrentState, Class |-> cls, Ns |-> Ns]
           /\ fnResult' = r.Log)
    /\ lastOp' = "TickBatchParallel"
    /\ UNCHANGED aggVars
    /\ UNCHANGED <<bDebugMode, bVerboseDebug>>
    /\ UNCHANGED <<valid, active, bCanEverTick, CurrentTimeLow, GroupedBatches, SpatialBatch,
                   FreedBuffers, PendingRegistrations, PendingUnregistrations, FrameCounter,
                   Stats, crashed, TickCalls, TickLog, cancelled>>

\* Components at distances 1 and 1 from the first: a tie for the nearest neighbour
SortObjects == {1, 2, 4}

InitSort ==
    /\ CurrentTimeLow = FALSE
    /\ \E objs \in SeqsUpTo(SortObjects, MaxLen), inactive \in SUBSET SortObjects :
           AfterFirstFlush([i \in DOMAIN objs |-> <<objs[i], {}>>], inactive)

NextSort ==
    \/ \E o \in SortObjects : DestroyObject(o)
    \/ CallSortForCacheLocality("Comp")

SpecSort == InitSort /\ [][NextSort]_vars

\* C4: SortForCacheLocality leaves in the batch the descriptors it held before the
\* call, as a multiset, for every mix of enabled, disabled and invalid descriptors.
C4_SortKeepsMembership ==
    lastOp = "SortForCacheLocality" => BagOf(fnResult) = BagOf(fnArgs)

\* C5: a second SortForCacheLocality right after the first, with no change of
\* membership or position in between, leaves the order the first call produced.
C5_SortIdempotent ==
    lastOp = "SortForCacheLocality" => SortedOrder(fnResult) = fnResult

\* A call that changed the order and met a tie: two entities equally far from the
\* one chained before them
C5_Witness ==
    /\ lastOp = "SortForCacheLocality"
    /\ fnResult # fnArgs
    /\ BagOf(fnResult) = BagOf(fnArgs)
    /\ \E k \in 1..(Len(fnResult) - 2) :
        /\ GetDistance(fnResult[k], fnResult[k + 1]) = GetDistance(fnResult[k], fnResult[k + 2])
        /\ GetDistance(fnResult[k], fnResult[k + 1]) > 0

-----------------------------------------------------------------------------
(* TickBatch against TickBatchParallel *)

\* Two plain components and a character-movement component
ParObjects == {1, 2, NumComp + 1}

ParFlags == {{}, {"UseParallel"}, {"UseParallel", "LowPrio"}}

InitPar ==
    /\ CurrentTimeLow \in BOOLEAN
    /\ \E objs \in SeqsUpTo(ParObjects, MaxLen - 1), f \in ParFlags :
           AfterFirstFlush([i \in DOMAIN objs |-> <<objs[i], f>>], {})

NextPar ==
    \/ \E o \in ParObjects : DestroyObject(o)
    \/ \E cls \in Classes : CallTickBatch(cls, 500)
    \/ \E cls \in Classes, n \in 1..MaxThreads : CallTickBatchParallel(cls, 500, n)

SpecPar == InitPar /\ [][NextPar]_vars

\* The objects a log holds invocations of
InvokedSet(log) == {log[i].Object : i \in DOMAIN log}

\* C8: TickBatchParallel invokes exactly the objects TickBatch invokes when called
\* on the same batch state.
C8_ParallelSameSet ==
    lastOp = "TickBatchParallel" =>
        InvokedSet(fnResult) = InvokedSet(TickBatch(fnArgs.St, fnArgs.Class, fnArgs.Ns).Log)

-----------------------------------------------------------------------------
(* The spatial grid and its radius query *)

\* Components of cell 0, of cell 1 and, 64 cells further on X, of cell 0 again
GridObjects == {1, 2, 3}

QueryPositions == {<<0, 0, 0>>, <<128, 0, 0>>}

QueryRadii == {1, MaxRadius}

InitGrid ==
    /\ CurrentTimeLow = FALSE
    /\ \E objs \in SeqsUpTo(GridObjects, MaxLen - 2), inactive \in SUBSET GridObjects :
           AfterFirstFlush([i \in DOMAIN objs |-> <<objs[i], {"SpatialAware"}>>], inactive)

NextGrid ==
    \/ \E o \in GridObjects : PendingUnregistrations = <<>> /\ UnregisterComponent(o)
    \/ \E Fault \in BOOLEAN : TickCalls < 1 /\ Tick(MainNs, 1, Fault)
    \/ \E p \in QueryPositions, r \in QueryRadii, Fault \in BOOLEAN : Query(p, r, Fault)

SpecGrid == InitGrid /\ [][NextGrid]_vars

\* The descriptor a pointer of the last query's result refers to
Pointee(p) == Deref(CurrentState, p).Data

\* C6: every entity GetNearbyEntities(p, r) returns has its cached position within
\* distance r of p.
C6_ResultWithinRadius ==
    (lastOp = "GetNearbyEntities" /\ ~crashed) =>
        \A i \in DOMAIN fnResult :
            DistSquared(fnArgs.Position, Pointee(fnResult[i]).Position)
                <= fnArgs.Radius * fnArgs.Radius

\* A query from a position of cell 64, which packs to the key of cell 0, that
\* returned the component of cell 64 and left out the one of cell 0
C6_Witness ==
    /\ lastOp = "GetNearbyEntities"
    /\ ~crashed
    /\ fnArgs.Position = <<128, 0, 0>>
    /\ \E i \in DOMAIN fnResult : Pointee(fnResult[i]).Object = 3
    /\ \E p \in Range(SpatialBatch.GridCells[0]) : p \notin Range(fnResult)

\* The cell coordinates a packed key holds
KeyX(k) == (k \div (CellMaskXY * CellMaskZ)) % CellMaskXY

KeyY(k) == (k \div CellMaskZ) % CellMaskXY

KeyZ(k) == k % CellMaskZ

\* Cell k lies in the cube of candidate cells of a query: within
\* ceil(Radius / GridCellSize) cells of the centre cell on every axis
IsCandidateCell(k, Position, Radius) ==
    LET c == CalculateGridCell(Position)
        R == CeilDiv(Radius * PosUnit, GridCellSize)
    IN  /\ KeyX(k) - KeyX(c) \in (-R)..R
        /\ KeyY(k) - KeyY(c) \in (-R)..R
        /\ KeyZ(k) - KeyZ(c) \in (-R)..R

\* The pointers of the candidate cells whose entity lies within the radius
InRangeMembers ==
    {p \in UNION {Range(SpatialBatch.GridCells[k]) :
                    k \in {c \in DOMAIN SpatialBatch.GridCells :
                            IsCandidateCell(c, fnArgs.Position, fnArgs.Radius)}} :
        DistSquared(fnArgs.Position, Pointee(p).Position) <= fnArgs.Radius * fnArgs.Radius}

\* C7 (as the code has it): GetNearbyEntities(p, r) returns every enabled entity of
\* a candidate cell whose cached position is within distance r of p.
C7_EnabledInRangeReturned ==
    (lastOp = "GetNearbyEntities" /\ ~crashed) =>
        \A p \in InRangeMembers : Pointee(p).bEnabled => p \in Range(fnResult)

\* C7 as stated: every entity of a candidate cell within distance r of p is
\* returned, whatever its other fields.
C7_AllInRangeReturned ==
    (lastOp = "GetNearbyEntities" /\ ~crashed) =>
        \A p \in InRangeMembers : p \in Range(fnResult)

\* A query that returned an entity of a cell other than the centre cell while a
\* disabled entity lay in range
C7_Witness ==
    /\ lastOp = "GetNearbyEntities"
    /\ ~crashed
    /\ \E i \in DOMAIN fnResult :
        Pointee(fnResult[i]).SpatialBucketId # CalculateGridCell(fnArgs.Position)
    /\ \E p \in InRangeMembers : ~Pointee(p).bEnabled

-----------------------------------------------------------------------------
(* Whole classes registered at once, ticked and optimized *)

BulkFlags == {{}, {"UseParallel"}}

\* The last plain component
BulkDestroyed == {NumComp}

\* The durations a batch tick may measure per entity, in ns, the same for every batch
Durations == {[cls \in Classes |-> 50], [cls \in Classes |-> 1500]}

NextBulk ==
    \/ \E cls \in {"Comp", "Move"}, f \in BulkFlags : RegisterAllComponentsOfType(cls, f)
    \/ \E o \in BulkDestroyed : DestroyObject(o)
    \/ \E NsOf \in Durations, n \in 1..MaxThreads :
           TickCalls < MainTicks - 1 /\ Tick(NsOf, n, FALSE)
    \/ OptimizeBatchesCall

SpecBulk == Init /\ [][NextBulk]_vars

\* Every descriptor of the batch is enabled and refers to a valid object
AllActive(Batch) ==
    \A i \in DOMAIN Batch.TickEntities : IsActiveEntity(Batch.TickEntities[i])

\* C9: after the first Tick call of a fresh scheduler, every entity of a batch whose
\* entities are all enabled and were registered with default flags has been invoked
\* exactly once, through the sequential tick.
C9_FirstTickSequentialOnce ==
    (lastOp = "Tick" /\ TickCalls = 1) =>
        \A cls \in DOMAIN TypeBatches :
            (TypeBatches[cls].Flags = {} /\ AllActive(TypeBatches[cls])) =>
                \A i \in DOMAIN TypeBatches[cls].TickEntities :
                    LET o == TypeBatches[cls].TickEntities[i].Object
                    IN  /\ Invocations(TickLog, o) = 1
                        /\ \A j \in DOMAIN TickLog :
                               TickLog[j].Object = o => TickLog[j].Via = "seq"

\* A first Tick call that invoked more entities of one default-flag batch than the
\* parallel threshold
C9_Witness ==
    /\ lastOp = "Tick"
    /\ TickCalls = 1
    /\ "Comp" \in DOMAIN TypeBatches
    /\ TypeBatches["Comp"].Flags = {}
    /\ AllActive(TypeBatches["Comp"])
    /\ Len(TypeBatches["Comp"].TickEntities) > ParallelMinEntities
    /\ Len(TickLog) >= Len(TypeBatches["Comp"].TickEntities)

\* The batch clears both thresholds of the parallel promotion
IsCostlyAndLarge(Batch) ==
    /\ Batch.AverageTickTimeNs > ParallelTickTimeNs
    /\ Len(Batch.TickEntities) > ParallelMinEntities

\* C10 (as the code has it): after a pass of OptimizeBatches, every batch that is not
\* of a character-movement class, whose average duration exceeds 1000 ns and whose
\* entity count exceeds 10, is parallel-eligible.
C10_PromotedUnlessMovement ==
    lastOp = "OptimizeBatches" =>
        \A cls \in DOMAIN TypeBatches :
            (IsCostlyAndLarge(TypeBatches[cls]) /\ ~IsCharacterMovementClass(cls))
                => CanTickInParallel(TypeBatches[cls])

\* C10 as stated: every such batch, of any class, is parallel-eligible.
C10_PromotedAnyClass ==
    lastOp = "OptimizeBatches" =>
        \A cls \in DOMAIN TypeBatches :
            IsCostlyAndLarge(TypeBatches[cls]) => CanTickInParallel(TypeBatches[cls])

\* A pass that promoted a costly, large batch of plain components
C10_Witness ==
    /\ lastOp = "OptimizeBatches"
    /\ "Comp" \in DOMAIN TypeBatches
    /\ IsCostlyAndLarge(TypeBatches["Comp"])
    /\ CanTickInParallel(TypeBatches["Comp"])
    /\ \E i \in DOMAIN TickLog : TickLog[i].Batch = "Comp" /\ TickLog[i].Via = "seq"

-----------------------------------------------------------------------------
(* Small batches under the optimizer *)

OptFlags == {{}, {"UseParallel"}}

\* A batch of plain components a first flush has filled, the world otherwise fresh
InitOpt ==
    /\ CurrentTimeLow = FALSE
    /\ \E objs \in SeqsUpTo(SortObjects, MaxLen - 1), f \in OptFlags :
           AfterFirstFlush([i \in DOMAIN objs |-> <<objs[i], f>>], {})

NextOpt ==
    \/ RegisterAllComponentsOfType("Move", {})
    \/ OptimizeBatchesCall
    \/ TickCalls < MainTicks - 1 /\ Tick(MainNs, 1, FALSE)
    \/ \E cls \in {"Comp"} : CallTickBatch(cls, 500)
    \/ \E cls \in {"Comp"} : CallTickBatchParallel(cls, 500, MaxThreads)

SpecOpt == InitOpt /\ [][NextOpt]_vars

\* s is an initial part of t
IsPrefix(s, t) == Len(s) <= Len(t) /\ SubSeq(t, 1, Len(s)) = s

\* One step, seen from a batch whose sorting is or has just been switched off
C11_Step ==
    /\ lastOp' = "OptimizeBatches" =>
           \A cls \in DOMAIN TypeBatches' :
               Len(TypeBatches'[cls].TickEntities) < SortMinEntities
                   => ~TypeBatches'[cls].bSortByCacheLocality
    /\ \A cls \in DOMAIN TypeBatches :
           ~TypeBatches[cls].bSortByCacheLocality =>
               /\ ~TypeBatches'[cls].bSortByCacheLocality
               /\ lastOp' \in {"Tick", "TickBatch", "TickBatchParallel"} =>
                      IsPrefix(TypeBatches[cls].TickEntities, TypeBatches'[cls].TickEntities)

\* C11: a pass of OptimizeBatches leaves cache-locality sorting switched off in every
\* batch of fewer than 5 entities, it is never switched on again, and a tick of a
\* batch whose sorting is off leaves its entity sequence in the order it had.
C11_SmallBatchesStayUnsorted == [][C11_Step]_vars

\* A batch of three whose sorting is off was ticked while its sequence is in an order
\* the sort would change
C11_Witness ==
    /\ lastOp \in {"Tick", "TickBatch"}
    /\ "Comp" \in DOMAIN TypeBatches
    /\ ~TypeBatches["Comp"].bSortByCacheLocality
    /\ Len(TypeBatches["Comp"].TickEntities) >= 3
    /\ SortedOrder(TypeBatches["Comp"].TickEntities) # TypeBatches["Comp"].TickEntities
    /\ TypeBatches["Comp"].LastFrameTickCount >= 3

-----------------------------------------------------------------------------
(* The dispatch loop of TickBatch, one entity update at a time.  While the    *)
(* update of an entity runs, it may call the entry points and destroy objects. *)

StepObjects == {1, 2}

StepClasses == {"Comp"}

\* The object that an update destroys, and the one it unregisters
StepDestroyed == {2}

StepUnregistered == {1}

\* TickBatch up to the call of BatchTickFunction: the batch after the optional
\* sort, and the ActiveEntities copy (empty on every early return)
TickBatchPrologue(st, cls) ==
    LET b == st.TB[cls]
        st1 == [st EXCEPT !.TB[cls].LastFrameTickCount = 0]
    IN  IF Len(b.TickEntities) = 0 \/ b.BatchTickFunction = "None"
        THEN [St |-> st1, ActiveEntities |-> <<>>]
        ELSE With(IF b.bSortByCacheLocality THEN SortForCacheLocality(st1, cls) ELSE st1,
                  LAMBDA st2 :
             IF "LowPrio" \in b.Flags /\ CurrentTimeLow
             THEN [St |-> st2, ActiveEntities |-> <<>>]
             ELSE [St |-> st2,
                   ActiveEntities |-> SelectSeq(st2.TB[cls].TickEntities, IsActiveEntity)])

\* No dispatch loop is running
NoLoop == [Class |-> "Comp", ActiveEntities |-> <<>>, Fn |-> "None", Running |-> FALSE]

\* The calls of the entry points come from outside a batch tick or from the
\* entity update that the loop has called last
CallerRuns == ~fnArgs.Running \/ fnResult >= 1

\* TickBatch enters its dispatch loop over the ActiveEntities copy
TickBatchBegin(cls) ==
    /\ ~crashed
    /\ ~fnArgs.Running
    /\ cls \in DOMAIN TypeBatches
    /\ With(TickBatchPrologue(CurrentState, cls), LAMBDA p :
           /\ TypeBatches' = p.St.TB
           /\ fnArgs' = [Class |-> cls, ActiveEntities |-> p.ActiveEntities,
                         Fn |-> TypeBatches[cls].BatchTickFunction,
                         Running |-> p.ActiveEntities # <<>>])
    /\ fnResult' = 0
    /\ TickLog' = <<>>
    /\ lastOp' = "TickBatch.begin"
    /\ UNCHANGED aggVars
    /\ UNCHANGED <<bDebugMode, bVerboseDebug>>
    /\ UNCHANGED <<valid, active, bCanEverTick, CurrentTimeLow, GroupedBatches, SpatialBatch,
                   FreedBuffers, PendingRegistrations, PendingUnregistrations, FrameCounter,
                   Stats, crashed, TickCalls, cancelled>>

\* The loop calls the dispatch lambda on the next entity of the copy
TickBatchInvoke ==
    /\ ~crashed
    /\ fnArgs.Running
    /\ fnResult < Len(fnArgs.ActiveEntities)
    /\ TickLog' = TickLog \o Dispatch(fnArgs.Fn, fnArgs.ActiveEntities[fnResult + 1],
                                      "seq", fnArgs.Class)
    /\ fnResult' = fnResult + 1
    /\ lastOp' = "TickBatch.invoke"
    /\ UNCHANGED aggVars
    /\ UNCHANGED <<bDebugMode, bVerboseDebug>>
    /\ UNCHANGED <<valid, active, bCanEverTick, CurrentTimeLow, TypeBatches, GroupedBatches,
                   SpatialBatch, FreedBuffers, PendingRegistrations, PendingUnregistrations,
                   FrameCounter, Stats, crashed, TickCalls, cancelled, fnArgs>>

\* The loop is over: TickBatch records its measurements and returns
TickBatchEnd ==
    /\ ~crashed
    /\ fnArgs.Running
    /\ fnResult = Len(fnArgs.ActiveEntities)
    /\ TypeBatches' = [TypeBatches EXCEPT
                           ![fnArgs.Class].AverageTickTimeNs = MainNs[fnArgs.Class],
                           ![fnArgs.Class].LastFrameTickCount = Len(fnArgs.ActiveEntities)]
    /\ fnArgs' = [fnArgs EXCEPT !.Running = FALSE]
    /\ lastOp' = "TickBatch.end"
    /\ UNCHANGED aggVars
    /\ UNCHANGED <<bDebugMode, bVerboseDebug>>
    /\ UNCHANGED <<valid, active, bCanEverTick, CurrentTimeLow, GroupedBatches, SpatialBatch,
                   FreedBuffers, PendingRegistrations, PendingUnregistrations, FrameCounter,
                   Stats, crashed, TickCalls, TickLog, cancelled, fnResult>>

InitStep ==
    /\ CurrentTimeLow = FALSE
    /\ valid = [o \in Objects |-> TRUE]
    /\ active = [o \in Objects |-> TRUE]
    /\ \E objs \in SeqsUpTo(StepObjects, MaxBatch) :
           /\ bCanEverTick = [c \in Components |-> c \notin {objs[i] : i \in DOMAIN objs}]
           /\ With(ProcessRegistrations(FreshContainers, [i \in DOMAIN objs |-> <<objs[i], {}>>]),
                   LAMBDA st :
                  /\ TypeBatches = st.TB
                  /\ GroupedBatches = st.GB
                  /\ SpatialBatch = st.SB
                  /\ FreedBuffers = st.FB
                  /\ Stats = st.Stats)
    /\ PendingRegistrations = <<>>
    /\ PendingUnregistrations = <<>>
    /\ FrameCounter = 1
    /\ bDebugMode = FALSE
    /\ FreshAggregator
    /\ bVerboseDebug = FALSE
    /\ crashed = FALSE
    /\ TickCalls = 0
    /\ TickLog = <<>>
    /\ lastOp = "Init"
    /\ cancelled = {}
    /\ fnArgs = NoLoop
    /\ fnResult = 0

NextStep ==
    \/ \E o \in StepObjects : CallerRuns /\ RegisterComponent(o, {})
    \/ \E o \in StepUnregistered : CallerRuns /\ UnregisterComponent(o)
    \/ \E o \in StepDestroyed : CallerRuns /\ DestroyObject(o)
    \/ ~fnArgs.Running /\ TickCalls < MainTicks - 1 /\ Tick(MainNs, 1, FALSE)
    \/ \E cls \in StepClasses : TickBatchBegin(cls)
    \/ TickBatchInvoke
    \/ TickBatchEnd

SpecStep == InitStep /\ [][NextStep]_vars

\* A pending queue has grown in the step
QueueGrew ==
    \/ Len(PendingRegistrations') > Len(PendingRegistrations)
    \/ Len(PendingUnregistrations') > Len(PendingUnregistrations)

\* C12: a step in which a request is appended to a pending queue, also one taken
\* by an entity update while the dispatch loop of a batch tick is running, leaves
\* the batches, the phase lists and the grid as they are
C12_Step ==
    QueueGrew => UNCHANGED <<TypeBatches, GroupedBatches, SpatialBatch, FreedBuffers>>

C12_RequestsOnlyQueue == [][C12_Step]_vars

\* A request was queued by an update in the middle of a running dispatch loop,
\* and the batch still holds what the loop copied
C12_Witness ==
    /\ fnArgs.Running
    /\ fnResult >= 1
    /\ fnResult < Len(fnArgs.ActiveEntities)
    /\ lastOp \in {"RegisterComponent", "UnregisterComponent"}
    /\ Len(PendingRegistrations) + Len(PendingUnregistrations) >= 1
    /\ Len(TypeBatches[fnArgs.Class].TickEntities) = Len(fnArgs.ActiveEntities)

\* The invocations that the step has added to the log
NewInvocations ==
    IF lastOp' = "TickBatch.invoke"
    THEN {TickLog'[i] : i \in (Len(TickLog) + 1)..Len(TickLog')}
    ELSE IF lastOp' = "Tick" THEN {TickLog'[i] : i \in DOMAIN TickLog'} ELSE {}

\* C14: whenever the update of an entity is run, by a whole Tick call or by one
\* round of the dispatch loop of a batch tick, the entity is valid at that moment,
\* also when an update that ran earlier in the same batch tick has destroyed it
C14_Step == \A inv \in NewInvocations : inv.Ran => valid[inv.Object]

C14_NeverInvokedInvalid == [][C14_Step]_vars

\* The dispatch loop has run the update of an object that was destroyed after
\* the loop had copied its descriptor
C14_DestroyedThenInvoked ==
    /\ lastOp = "TickBatch.invoke"
    /\ TickLog # <<>>
    /\ TickLog[Len(TickLog)].Ran
    /\ ~valid[TickLog[Len(TickLog)].Object]

\* C13: every Tick call returns normally: after a Tick call the scheduler is not
\* in a faulted state, whatever the batches, the queues and the grid held
C13_TickReturnsNormally == lastOp = "Tick" => ~crashed

-----------------------------------------------------------------------------
(* Debug mode *)

\* UEnhancedTickSystem::SetDebugMode
SetDebugMode(bEnable, bVerbose) ==
    /\ ~crashed
    /\ bDebugMode' = bEnable
    /\ bVerboseDebug' = bVerbose
    /\ lastOp' = "SetDebugMode"
    /\ UNCHANGED aggVars
    /\ UNCHANGED <<valid, active, bCanEverTick, CurrentTimeLow, TypeBatches, GroupedBatches,
                   SpatialBatch, FreedBuffers, PendingRegistrations, PendingUnregistrations,
                   FrameCounter, Stats, crashed, TickCalls, TickLog, cancelled, fnArgs,
                   fnResult>>

\* What the debug branch at the head of Tick writes: a log line, and with verbose
\* mode an on-screen message with the number of batches and of entities
TickDebugOutput(bDebug, bVerbose) ==
    IF ~bDebug THEN <<>>
    ELSE <<[Line |-> "Tick"]>>
         \o (IF bVerbose
             THEN <<[Line |-> "OnScreen", Batches |-> Cardinality(DOMAIN TypeBatches),
                     Entities |-> Stats.TotalRegisteredEntities]>>
             ELSE <<>>)

\* One Tick call made in the current state by a run whose debug flags are bDebug
\* and bVerbose and in which a read through an invalid pointer turns out as Fault
TickInRun(bDebug, bVerbose, Fault) ==
    [Output |-> TickDebugOutput(bDebug, bVerbose),
     FrameCounter |-> (FrameCounter + 1) % FrameWrap,
     Result |-> TickFrame(CurrentState, (FrameCounter + 1) % FrameWrap, PendingRegistrations,
                          PendingUnregistrations, MainNs, 1, Fault)]

\* The invocation sequence and the scheduler state a Tick call leaves
Scheduling(r) == [FrameCounter |-> r.FrameCounter, Result |-> r.Result]

NextDebug ==
    \/ \E o \in MainObjects, f \in MainFlags : RegisterComponent(o, f)
    \/ \E o \in MainObjects : UnregisterComponent(o)
    \/ \E Fault \in BOOLEAN : TickCalls < MainTicks - 1 /\ Tick(MainNs, 1, Fault)
    \/ \E bEnable, bVerbose \in BOOLEAN : SetDebugMode(bEnable, bVerbose)

SpecDebug == Init /\ [][NextDebug]_vars

-----------------------------------------------------------------------------
(* The order of the steps of one Tick call *)

\* A component of the first phase, a movement component of the first phase and
\* an actor of the fifth phase
PhaseComponents == {1, NumComp + 1}

PhaseActors == {NumComp + NumMove + 1}

\* The scheduler after Frame Tick calls with nothing ever registered
IdleScheduler(Frame) ==
    /\ TypeBatches = <<>>
    /\ GroupedBatches = [g \in Range(TickOrder) |-> <<>>]
    /\ SpatialBatch = EmptySpatialBatch
    /\ FreedBuffers = <<>>
    /\ PendingRegistrations = <<>>
    /\ PendingUnregistrations = <<>>
    /\ FrameCounter = Frame
    /\ Stats = [TotalRegisteredEntities |-> 0]
    /\ bDebugMode = FALSE
    /\ FreshAggregator
    /\ bVerboseDebug = FALSE

\* The frame counters the runs start from: a fresh scheduler, and one whose next
\* Tick call is the first to run the optimizer
PhaseStarts == {0, OptimizeEvery - 1}

InitPhase ==
    /\ FreshWorld
    /\ CurrentTimeLow = FALSE
    /\ \E Frame \in PhaseStarts : IdleScheduler(Frame)
    /\ NoHistory

NextPhase ==
    \/ \E o \in PhaseComponents, f \in MainFlags : RegisterComponent(o, f)
    \/ \E a \in PhaseActors, f \in MainFlags :
           /\ Len(PendingRegistrations) < MaxPending
           /\ BatchLoad(ClassOf(a)) < 1
           /\ RegisterActor(a, f, FALSE)
    \/ \E a \in PhaseActors : SetActive(a, TRUE)
    \/ TickCalls < MainTicks /\ Tick(MainNs, 1, FALSE)

SpecPhase == InitPhase /\ [][NextPhase]_vars

\* The place of a tick group in the order Tick goes through them
PhaseIndex(Group) == CHOOSE i \in DOMAIN TickOrder : TickOrder[i] = Group

\* The batch of invocation inv holds a descriptor of its object in state TB
HasDescriptor(TB, inv) ==
    /\ inv.Batch \in DOMAIN TB
    /\ \E k \in DOMAIN TB[inv.Batch].TickEntities :
           TB[inv.Batch].TickEntities[k].Object = inv.Object

\* C16: in every Tick call the flush is complete before any invocation (the queues
\* are empty and every batch invocation is of a descriptor the flushed batches
\* hold); the invocations by batches follow the order of the seven phases; the
\* grid's invocations come after every batch invocation, one per pointer at most;
\* and the optimizer, when due, runs after them: it has seen the measurements of
\* this call, so a batch created and ticked in the call is not made low-priority,
\* and it has switched off the sorting of the small batches
C16_Step ==
    (lastOp' = "Tick" /\ ~crashed') =>
        /\ PendingRegistrations' = <<>> /\ PendingUnregistrations' = <<>>
        /\ \A i \in DOMAIN TickLog' :
               TickLog'[i].Via # "grid" => HasDescriptor(TypeBatches', TickLog'[i])
        /\ \A i, j \in DOMAIN TickLog' :
               (i < j /\ TickLog'[i].Via # "grid" /\ TickLog'[j].Via # "grid") =>
                   PhaseIndex(TypeBatches'[TickLog'[i].Batch].TickGroup)
                       <= PhaseIndex(TypeBatches'[TickLog'[j].Batch].TickGroup)
        /\ \A i, j \in DOMAIN TickLog' :
               (i < j /\ TickLog'[i].Via = "grid") => TickLog'[j].Via = "grid"
        /\ Cardinality({i \in DOMAIN TickLog' : TickLog'[i].Via = "grid"})
               <= Len(CellPtrs(SpatialBatch'.GridCells, SetToSeq(DOMAIN SpatialBatch'.GridCells)))
        /\ (FrameCounter' % OptimizeEvery = 0) =>
               \A cls \in DOMAIN TypeBatches' :
                   /\ Len(TypeBatches'[cls].TickEntities) < SortMinEntities
                          => ~TypeBatches'[cls].bSortByCacheLocality
                   /\ (cls \notin DOMAIN TypeBatches
                         /\ \E i \in DOMAIN TickLog' : TickLog'[i].Batch = cls)
                          => "LowPrio" \notin TypeBatches'[cls].Flags

C16_TickStepsInOrder == [][C16_Step]_vars

\* The first Tick call of a run was one with the optimizer due; it flushed the
\* registrations of a first-phase component and a fifth-phase actor, invoked the
\* component before the actor and then a grid member
C16_Witness ==
    /\ lastOp = "Tick"
    /\ TickCalls = 1
    /\ FrameCounter % OptimizeEvery = 0
    /\ FrameCounter # 0
    /\ Len(TickLog) >= 3
    /\ TickLog[1].Batch = "Comp"
    /\ TickLog[2].Batch = "Pawn"
    /\ TickLog[Len(TickLog)].Via = "grid"
    /\ "LowPrio" \notin TypeBatches["Comp"].Flags
    /\ ~TypeBatches["Comp"].bSortByCacheLocality

-----------------------------------------------------------------------------
(* Thread-unsafe components and the parallel tick *)

\* The actor that owns the first plain component and the first movement component
UnsafeOwners == {NumComp + NumMove + 1}

NextUnsafe ==
    \/ \E a \in UnsafeOwners, f \in BulkFlags :
           /\ PendingCount(PendingRegistrations, a) = 0
           /\ DescriptorCount(a) = 0
           /\ RegisterActor(a, f, TRUE)
    \/ \E f \in BulkFlags : RegisterAllComponentsOfType("Move", f)
    \/ \E NsOf \in Durations : TickCalls < MainTicks - 1 /\ Tick(NsOf, MaxThreads, FALSE)
    \/ OptimizeBatchesCall
    \/ \E cls \in {"Comp", "Move"} : CallTickBatchParallel(cls, 1500, MaxThreads)

SpecUnsafe == Init /\ [][NextUnsafe]_vars

\* The invocations of the last Tick call or direct batch tick
LastInvocations ==
    IF lastOp = "Tick" THEN Range(TickLog)
    ELSE IF lastOp = "TickBatchParallel" THEN Range(fnResult) ELSE {}

\* C17: no invocation made from a parallel shard task is of a thread-unsafe
\* component, whatever flags the component or its batch were registered with and
\* whatever the optimizer has set
C17_UnsafeNeverOnShard ==
    \A inv \in LastInvocations : inv.Via = "par" => ~IsThreadUnsafe(inv.Object)

\* A batch of more than ten active movement components that carries UseParallel,
\* which it got from a registration through their actor, has been ticked by a Tick
\* call: every one of them invoked, sequentially
C17_Witness ==
    /\ lastOp = "Tick"
    /\ "Move" \in DOMAIN TypeBatches
    /\ CanTickInParallel(TypeBatches["Move"])
    /\ Len(TypeBatches["Move"].TickEntities) > ParallelMinEntities
    /\ AllActive(TypeBatches["Move"])
    /\ \A i \in DOMAIN TypeBatches["Move"].TickEntities :
           \E k \in DOMAIN TickLog :
               /\ TickLog[k].Object = TypeBatches["Move"].TickEntities[i].Object
               /\ TickLog[k].Via = "seq"

-----------------------------------------------------------------------------
(* Windows of consecutive Tick calls *)

WindowObjects == {1, 2}

WindowFlags == {{"LowPrio"}, {}}

\* The frame counters the runs start from: a fresh scheduler, and one that has
\* made all but four of the Tick calls that bring the counter to its wrap
WindowStarts == {0, FrameWrap - 4}

\* Calls consecutive Tick calls, no other call between them: the state they leave,
\* the log of each, and whether one of them faulted (the first half of the calls,
\* then the second)
RECURSIVE TickTimes(_, _, _, _, _)
TickTimes(st, Frame, regs, unregs, Calls) ==
    IF Calls = 0 THEN [St |-> st, Logs |-> <<>>, Crashed |-> FALSE]
    ELSE IF Calls = 1
    THEN With(TickFrame(st, (Frame + 1) % FrameWrap, regs, unregs, MainNs, 1, FALSE),
              LAMBDA r : [St |-> r.St, Logs |-> <<r.Log>>, Crashed |-> r.Crashed])
    ELSE With(TickTimes(st, Frame, regs, unregs, Calls \div 2), LAMBDA first :
         After(first,
             IF first.Crashed THEN first
             ELSE With(TickTimes(first.St, (Frame + Calls \div 2) % FrameWrap, <<>>, <<>>,
                                 Calls - Calls \div 2), LAMBDA rest :
                      [St |-> rest.St, Logs |-> first.Logs \o rest.Logs,
                       Crashed |-> rest.Crashed])))

\* Calls consecutive Tick calls, no other call between them
TickRun(Calls, Op) ==
    /\ ~crashed
    /\ With(TickTimes(CurrentState, FrameCounter, PendingRegistrations,
                      PendingUnregistrations, Calls), LAMBDA r :
           /\ TypeBatches' = r.St.TB
           /\ GroupedBatches' = r.St.GB
           /\ SpatialBatch' = r.St.SB
           /\ FreedBuffers' = r.St.FB
           /\ Stats' = r.St.Stats
           /\ TickLog' = r.Logs[Len(r.Logs)]
           /\ fnResult' = r.Logs
           /\ crashed' = r.Crashed)
    /\ FrameCounter' = (FrameCounter + Calls) % FrameWrap
    /\ PendingRegistrations' = <<>>
    /\ PendingUnregistrations' = <<>>
    /\ TickCalls' = TickCalls + Calls
    /\ lastOp' = Op
    /\ UNCHANGED aggVars
    /\ UNCHANGED <<bDebugMode, bVerboseDebug>>
    /\ UNCHANGED <<valid, active, bCanEverTick, CurrentTimeLow, cancelled, fnArgs>>

\* As many consecutive Tick calls as the throttle has frames in its period
TickWindow == TickCalls + ThrottleEvery <= MaxTicks /\ TickRun(ThrottleEvery, "TickWindow")

InitWindow ==
    /\ FreshWorld
    /\ CurrentTimeLow = FALSE
    /\ \E Frame \in WindowStarts : IdleScheduler(Frame)
    /\ NoHistory

NextWindow ==
    \/ \E o \in WindowObjects, f \in WindowFlags : RegisterComponent(o, f)
    \/ TickCalls < MainTicks /\ Tick(MainNs, 1, FALSE)
    \/ TickWindow

SpecWindow == InitWindow /\ [][NextWindow]_vars

\* The calls of a window, by their place in it, on which the batch of class cls
\* invoked a member
TickedIn(Logs, cls) ==
    {k \in DOMAIN Logs : \E i \in DOMAIN Logs[k] : Logs[k][i].Batch = cls}

\* The batch holds an enabled valid member
HasActiveMember(Batch) ==
    \E i \in DOMAIN Batch.TickEntities : IsActiveEntity(Batch.TickEntities[i])

\* C18: a low-priority batch that holds enabled valid members, nothing being queued,
\* is ticked in exactly one of any three consecutive Tick calls, also when the frame
\* counter goes from its maximum back to 0 within the three
C18_Step ==
    (lastOp' = "TickWindow" /\ PendingRegistrations = <<>> /\ PendingUnregistrations = <<>>) =>
        \A cls \in DOMAIN TypeBatches :
            ("LowPrio" \in TypeBatches[cls].Flags /\ HasActiveMember(TypeBatches[cls]))
                => Cardinality(TickedIn(fnResult', cls)) = 1

C18_OnceInThreeCalls == [][C18_Step]_vars

-----------------------------------------------------------------------------
(* The period of the optimizer *)

PeriodObjects == {1, NumComp + 1}

\* The frame counters the runs start from: the next Tick call is the first, or the
\* third, that runs the optimizer
PeriodStarts == {OptimizeEvery - 1, 3 * OptimizeEvery - 1}

\* The lengths of the runs of consecutive Tick calls: one call, and the calls that
\* lie between one optimizer invocation and the call before the next, 300 later
PeriodRuns == {1, OptimizeEvery - 2}

InitPeriod ==
    /\ FreshWorld
    /\ CurrentTimeLow = FALSE
    /\ \E Frame \in PeriodStarts : IdleScheduler(Frame)
    /\ NoHistory

NextPeriod ==
    \/ \E o \in PeriodObjects : RegisterComponent(o, {})
    \/ \E Calls \in PeriodRuns :
           TickCalls + Calls <= OptimizeEvery + 1 /\ TickRun(Calls, "TickRun")

SpecPeriod == InitPeriod /\ [][NextPeriod]_vars

\* The batches the step leaves that were new in it or had their sorting on before
FreshBatches ==
    {cls \in DOMAIN TypeBatches' : cls \notin DOMAIN TypeBatches
                                     \/ TypeBatches[cls].bSortByCacheLocality}

\* The optimizer has run in the step: it has switched off the sorting of a batch
OptimizerRan == \E cls \in FreshBatches : ~TypeBatches'[cls].bSortByCacheLocality

\* C19: the optimizer runs on every 300th Tick call and on no other: in a run whose
\* first Tick call runs it, a sequence of consecutive Tick calls runs it exactly
\* when it holds one of the calls 1, 301, 601, ...
C19_Step ==
    (lastOp' = "TickRun" /\ FreshBatches # {}) =>
        (OptimizerRan <=> \E n \in (TickCalls + 1)..TickCalls' : n % OptimizeEvery = 1)

C19_OptimizerEvery300Calls == [][C19_Step]_vars

-----------------------------------------------------------------------------
(* The flush of a Tick call, one loop round at a time, under BatchesLock, with *)
(* register and unregister calls made by other threads                         *)

LockObjects == {1, 2}

\* BatchesLock is free, no flush is running
Unlocked == [Lock |-> "free", pc |-> "idle", DoneRegs |-> <<>>, DoneUnregs |-> <<>>]

\* A variant of the scoped lock that would not wait
ScopeLockAbsent == TRUE

\* FScopeLock Lock(BatchesLock.Get()): the caller goes on once the lock is free
ScopeLockFree == fnArgs.Lock = "free"

\* The registration loop of the running flush has visited the whole queue
RegistrationsDone ==
    \/ fnArgs.pc = "unregs"
    \/ fnArgs.pc = "regs" /\ Len(fnArgs.DoneRegs) >= Len(PendingRegistrations)

\* Tick advances the frame counter; ProcessDeferredOperations takes the lock
TickFlushBegin ==
    /\ ~crashed
    /\ TickCalls < MainTicks
    /\ fnArgs.pc = "idle"
    /\ ScopeLockFree
    /\ FrameCounter' = (FrameCounter + 1) % FrameWrap
    /\ fnArgs' = [Lock |-> "driver", pc |-> "regs", DoneRegs |-> <<>>, DoneUnregs |-> <<>>]
    /\ lastOp' = "Tick.lock"
    /\ UNCHANGED aggVars
    /\ UNCHANGED <<bDebugMode, bVerboseDebug>>
    /\ UNCHANGED <<valid, active, bCanEverTick, CurrentTimeLow, TypeBatches, GroupedBatches,
                   SpatialBatch, FreedBuffers, PendingRegistrations, PendingUnregistrations,
                   Stats, crashed, TickCalls, TickLog, cancelled, fnResult>>

\* One round of the registration loop
FlushRegistration ==
    /\ fnArgs.pc = "regs"
    /\ Len(fnArgs.DoneRegs) < Len(PendingRegistrations)
    /\ With(PendingRegistrations[Len(fnArgs.DoneRegs) + 1], LAMBDA RegPair :
           /\ With(ProcessRegistration(CurrentState, RegPair[1], RegPair[2]), LAMBDA st :
                  /\ TypeBatches' = st.TB
                  /\ GroupedBatches' = st.GB
                  /\ SpatialBatch' = st.SB
                  /\ FreedBuffers' = st.FB
                  /\ Stats' = st.Stats)
           /\ fnArgs' = [fnArgs EXCEPT !.DoneRegs = Append(@, RegPair)])
    /\ lastOp' = "Tick.register"
    /\ UNCHANGED aggVars
    /\ UNCHANGED <<bDebugMode, bVerboseDebug>>
    /\ UNCHANGED <<valid, active, bCanEverTick, CurrentTimeLow, PendingRegistrations,
                   PendingUnregistrations, FrameCounter, crashed, TickCalls, TickLog,
                   cancelled, fnResult>>

\* One round of the unregistration loop
FlushUnregistration ==
    /\ RegistrationsDone
    /\ Len(fnArgs.DoneUnregs) < Len(PendingUnregistrations)
    /\ With(PendingUnregistrations[Len(fnArgs.DoneUnregs) + 1], LAMBDA Object :
           /\ With(ProcessUnregistration(CurrentState, Object), LAMBDA st :
                  /\ TypeBatches' = st.TB
                  /\ GroupedBatches' = st.GB
                  /\ SpatialBatch' = st.SB
                  /\ FreedBuffers' = st.FB
                  /\ Stats' = st.Stats)
           /\ fnArgs' = [fnArgs EXCEPT !.pc = "unregs", !.DoneUnregs = Append(@, Object)])
    /\ lastOp' = "Tick.unregister"
    /\ UNCHANGED aggVars
    /\ UNCHANGED <<bDebugMode, bVerboseDebug>>
    /\ UNCHANGED <<valid, active, bCanEverTick, CurrentTimeLow, PendingRegistrations,
                   PendingUnregistrations, FrameCounter, crashed, TickCalls, TickLog,
                   cancelled, fnResult>>

\* Both loops are over: the flush empties the queues and releases the lock
FlushEmpty ==
    /\ RegistrationsDone
    /\ Len(fnArgs.DoneUnregs) >= Len(PendingUnregistrations)
    /\ PendingRegistrations' = <<>>
    /\ PendingUnregistrations' = <<>>
    /\ fnArgs' = [fnArgs EXCEPT !.Lock = "free", !.pc = "tick"]
    /\ lastOp' = "Tick.unlock"
    /\ UNCHANGED aggVars
    /\ UNCHANGED <<bDebugMode, bVerboseDebug>>
    /\ UNCHANGED <<valid, active, bCanEverTick, CurrentTimeLow, TypeBatches, GroupedBatches,
                   SpatialBatch, FreedBuffers, FrameCounter, Stats, crashed, TickCalls,
                   TickLog, cancelled, fnResult>>

\* The rest of the Tick call: conditional ticks, priorities, phases, grid, optimizer
TickAfterFlush ==
    /\ fnArgs.pc = "tick"
    /\ With(TickFrame(CurrentState, FrameCounter, <<>>, <<>>, MainNs, 1, FALSE), LAMBDA r :
           /\ TypeBatches' = r.St.TB
           /\ GroupedBatches' = r.St.GB
           /\ SpatialBatch' = r.St.SB
           /\ FreedBuffers' = r.St.FB
           /\ Stats' = r.St.Stats
           /\ TickLog' = r.Log
           /\ crashed' = r.Crashed)
    /\ TickCalls' = TickCalls + 1
    /\ fnArgs' = [fnArgs EXCEPT !.pc = "idle"]
    /\ lastOp' = "Tick"
    /\ UNCHANGED aggVars
    /\ UNCHANGED <<bDebugMode, bVerboseDebug>>
    /\ UNCHANGED <<valid, active, bCanEverTick, CurrentTimeLow, PendingRegistrations,
                   PendingUnregistrations, FrameCounter, cancelled, fnResult>>

InitLock ==
    /\ FreshWorld
    /\ CurrentTimeLow = FALSE
    /\ FreshScheduler
    /\ crashed = FALSE
    /\ TickCalls = 0
    /\ TickLog = <<>>
    /\ lastOp = "Init"
    /\ cancelled = {}
    /\ fnArgs = Unlocked
    /\ fnResult = 0

NextLock ==
    \/ \E o \in LockObjects : ScopeLockFree /\ RegisterComponent(o, {})
    \/ \E o \in LockObjects : ScopeLockFree /\ UnregisterComponent(o)
    \/ TickFlushBegin
    \/ FlushRegistration
    \/ FlushUnregistration
    \/ FlushEmpty
    \/ TickAfterFlush

SpecLock == InitLock /\ [][NextLock]_vars

\* C20: whatever the interleaving of the register and unregister calls of other
\* threads with the flush, the queues only grow until a flush empties them, and the
\* requests a flush empties them of are those its loops have visited, each once, in
\* queue order; both queues are empty when the flush releases the lock
C20_Step ==
    IF lastOp' = "Tick.unlock"
    THEN /\ fnArgs.DoneRegs = PendingRegistrations
         /\ fnArgs.DoneUnregs = PendingUnregistrations
         /\ PendingRegistrations' = <<>>
         /\ PendingUnregistrations' = <<>>
    ELSE /\ IsPrefix(PendingRegistrations, PendingRegistrations')
         /\ IsPrefix(PendingUnregistrations, PendingUnregistrations')

C20_NoRequestLostOrRepeated == [][C20_Step]_vars

\* A second flush has released the lock after visiting a registration and an
\* unregistration that other threads had queued
C20_Witness ==
    /\ lastOp = "Tick.unlock"
    /\ TickCalls >= 1
    /\ Len(fnArgs.DoneRegs) >= 1
    /\ Len(fnArgs.DoneUnregs) >= 1
    /\ PendingRegistrations = <<>>
    /\ PendingUnregistrations = <<>>

-----------------------------------------------------------------------------
(* The flush of an unregistration, whatever was registered before *)

\* The objects whose unregistration the next flush processes with no registration
\* of the same object in the same flush
UnregisteredAlone ==
    {o \in Range(PendingUnregistrations) :
        valid[o] /\ \A i \in DOMAIN PendingRegistrations : PendingRegistrations[i][1] # o}

\* The objects that have a descriptor in some batch
DescribedObjects(TB) ==
    UNION {{TB[cls].TickEntities[i].Object : i \in DOMAIN TB[cls].TickEntities} :
               cls \in DOMAIN TB}

\* The objects the grid's pointers refer to, as far as the pointers refer to anything
ObjectsInGrid(st) ==
    {Deref(st, p).Data.Object : p \in {q \in GridPtrs(st.SB) : Deref(st, q).Kind # "wild"}}

C21_Step ==
    (lastOp' = "Tick" /\ ~crashed') =>
        \A o \in UnregisteredAlone :
            /\ o \notin DescribedObjects(TypeBatches')
            /\ o \notin ObjectsInGrid(CurrentState')
            /\ Invocations(TickLog', o) = 0

\* C21: a Tick call whose flush processes an unregistration of a valid object, with
\* no registration of that object in the same flush, leaves no descriptor of the
\* object in any batch and no pointer to one in the grid, and does not invoke the
\* object, whatever was registered before.
C21_UnregisteredIsGone == [][C21_Step]_vars

-----------------------------------------------------------------------------
(* The flush of repeated registrations *)

\* The number of descriptors of object o in the batches TB
Descriptors(TB, o) ==
    IF ClassOf(o) \in DOMAIN TB
    THEN Count(TB[ClassOf(o)].TickEntities, LAMBDA d : d.Object = o)
    ELSE 0

\* The number of pending registrations of object o
Requests(o) == Count(PendingRegistrations, LAMBDA pair : pair[1] = o)

C22_Step ==
    (lastOp' = "Tick" /\ ~crashed') =>
        \A o \in Objects :
            (valid[o] /\ o \notin Range(PendingUnregistrations))
                => Descriptors(TypeBatches', o) = Descriptors(TypeBatches, o) + Requests(o)

\* C22: the flush of a Tick call adds one descriptor for every pending registration
\* of a valid object that has no unregistration pending, however often the object is
\* already registered or pending: registering an object twice leaves two descriptors
\* of it in its batch.
C22_NoDeduplication == [][C22_Step]_vars

\* A Tick call has flushed two registrations of component 1, and the batch holds two
\* descriptors of it
C22_Witness ==
    /\ lastOp = "Tick"
    /\ TickCalls = 1
    /\ ~crashed
    /\ Descriptors(TypeBatches, 1) = 2

-----------------------------------------------------------------------------
(* The order of the batches of one phase *)

\* The largest number of descriptors a batch starts with
PrioLen == 3

PrioFlags == {{}, {"HighPrio"}, {"LowPrio"}, {"HighPrio", "LowPrio"}}

\* The components whose destruction the runs include: the first of each batch
PrioDestroyed == {1, NumComp + 1}

\* Two batches of the phase TG_PrePhysics, of k and m descriptors, the last iC and iM
\* of them registered while inactive, created in either order with any priority flags
InitPrio ==
    /\ CurrentTimeLow \in BOOLEAN
    /\ \E k \in 1..PrioLen, m \in 1..PrioLen, fC \in PrioFlags, fM \in PrioFlags,
          CompFirst \in BOOLEAN :
         \E iC \in 0..k, iM \in 0..m :
           LET comps == [i \in 1..k |-> <<i, fC>>]
               moves == [i \in 1..m |-> <<NumComp + i, fM>>]
           IN  AfterFirstFlush(IF CompFirst THEN comps \o moves ELSE moves \o comps,
                               ((k - iC + 1)..k) \cup ((NumComp + m - iM + 1)..(NumComp + m)))

NextPrio ==
    \/ \E o \in PrioDestroyed : DestroyObject(o)
    \/ TickCalls < MainTicks /\ Tick(MainNs, 1, FALSE)

SpecPrio == InitPrio /\ [][NextPrio]_vars

\* The place of a batch in the priority order of its phase: high-priority batches
\* first, and among batches of equal high priority the low-priority ones last
PriorityRank(Batch) ==
    (IF "HighPrio" \in Batch.Flags THEN 0 ELSE 2) + (IF "LowPrio" \in Batch.Flags THEN 1 ELSE 0)

\* The pairs <<a, b>> of different batches of one phase such that an invocation of
\* batch a precedes an invocation of batch b in the log
TickedBefore(log, TB) ==
    {<<log[i].Batch, log[j].Batch>> : <<i, j>> \in
        {<<i, j>> \in (DOMAIN log) \X (DOMAIN log) :
            /\ i < j
            /\ log[i].Batch # log[j].Batch
            /\ TB[log[i].Batch].TickGroup = TB[log[j].Batch].TickGroup}}

C23_Step ==
    (lastOp' = "Tick" /\ ~crashed') =>
        \A pair \in TickedBefore(TickLog', TypeBatches) :
            PriorityRank(TypeBatches[pair[1]]) <= PriorityRank(TypeBatches[pair[2]])

\* C23: in every Tick call, of two batches of one phase that are both ticked, the
\* one flagged high-priority is ticked before the one that is not, and of two with
\* equal high-priority status the one not flagged low-priority is ticked before the
\* one flagged low-priority.
C23_PriorityOrder == [][C23_Step]_vars

\* A Tick call on the third frame has ticked a batch without priority flags and then
\* a low-priority batch that holds more descriptors
C23_Witness ==
    /\ lastOp = "Tick"
    /\ ~crashed
    /\ DOMAIN TypeBatches = {"Comp", "Move"}
    /\ TypeBatches["Comp"].Flags = {"LowPrio"}
    /\ TypeBatches["Move"].Flags = {}
    /\ Len(TypeBatches["Comp"].TickEntities) > Len(TypeBatches["Move"].TickEntities)
    /\ <<"Move", "Comp">> \in TickedBefore(TickLog, TypeBatches)

\* The number of enabled, valid descriptors of a batch
ActiveCount(Batch) == Count(Batch.TickEntities, IsActiveEntity)

\* The pairs of TickedBefore whose batches carry the same priority flags
TickedBeforeAtEqualPriority(log, TB) ==
    {pair \in TickedBefore(log, TB) :
        /\ ("HighPrio" \in TB[pair[1]].Flags) = ("HighPrio" \in TB[pair[2]].Flags)
        /\ ("LowPrio" \in TB[pair[1]].Flags) = ("LowPrio" \in TB[pair[2]].Flags)}

C24_StepActive ==
    (lastOp' = "Tick" /\ ~crashed') =>
        \A pair \in TickedBeforeAtEqualPriority(TickLog', TypeBatches) :
            ActiveCount(TypeBatches[pair[1]]) >= ActiveCount(TypeBatches[pair[2]])

\* C24: in every Tick call, of two batches of one phase with the same high-priority
\* and low-priority flags that are both ticked, the one ticked first has at least as
\* many enabled, valid descriptors as the other, for every mix of enabled and
\* disabled descriptors.
C24_DescendingActiveCount == [][C24_StepActive]_vars

C24_StepSize ==
    (lastOp' = "Tick" /\ ~crashed') =>
        \A pair \in TickedBeforeAtEqualPriority(TickLog', TypeBatches) :
            Len(TypeBatches[pair[1]].TickEntities) >= Len(TypeBatches[pair[2]].TickEntities)

\* C24, amended: in every Tick call, of two batches of one phase with the same
\* high-priority and low-priority flags that are both ticked, the one ticked first
\* holds at least as many descriptors as the other, enabled or not.
C24_DescendingSize == [][C24_StepSize]_vars

\* A Tick call has ticked, of two batches with the same priority flags, first the
\* one that holds more descriptors and fewer enabled, valid ones
C24_Witness ==
    /\ lastOp = "Tick"
    /\ ~crashed
    /\ \E pair \in TickedBeforeAtEqualPriority(TickLog, TypeBatches) :
           /\ Len(TypeBatches[pair[1]].TickEntities) > Len(TypeBatches[pair[2]].TickEntities)
           /\ ActiveCount(TypeBatches[pair[1]]) < ActiveCount(TypeBatches[pair[2]])

-----------------------------------------------------------------------------
(* A Tick call one batch, one shard task and one task round at a time *)

\* The part of TickBatchParallel before its shard loop: the early exits, the sort,
\* the ActiveEntities copy and the test for thread-unsafe components.  Parallel
\* tells whether the shard loop is entered; if not, the call ends in TickBatch or
\* returns at once.
TickBatchParallelPrologue(st, cls) ==
    LET b == st.TB[cls]
        st1 == [st EXCEPT !.TB[cls].LastFrameTickCount = 0]
    IN  IF Len(b.TickEntities) = 0 \/ b.BatchTickFunction = "None" \/ ~CanTickInParallel(b)
        THEN [St |-> st1, ActiveEntities |-> <<>>, Parallel |-> FALSE, Sequential |-> TRUE]
        ELSE With(IF b.bSortByCacheLocality THEN SortForCacheLocality(st1, cls) ELSE st1,
                  LAMBDA st2 :
             With(SelectSeq(st2.TB[cls].TickEntities, IsActiveEntity),
                  LAMBDA ActiveEntities :
                 IF Len(ActiveEntities) = 0
                 THEN [St |-> st2, ActiveEntities |-> <<>>,
                       Parallel |-> FALSE, Sequential |-> FALSE]
                 ELSE IF \E i \in DOMAIN ActiveEntities :
                             IsThreadUnsafe(ActiveEntities[i].Object)
                      THEN [St |-> st2, ActiveEntities |-> <<>>,
                            Parallel |-> FALSE, Sequential |-> TRUE]
                      ELSE [St |-> [st2 EXCEPT !.TB[cls].LastFrameTickCount =
                                                   Len(ActiveEntities)],
                            ActiveEntities |-> ActiveEntities,
                            Parallel |-> TRUE, Sequential |-> FALSE]))

\* The batches of all phases in the order Tick visits them
RECURSIVE BatchesInOrder(_, _)
BatchesInOrder(GB, Groups) ==
    IF Groups = <<>> THEN <<>> ELSE GB[Head(Groups)] \o BatchesInOrder(GB, Tail(Groups))

\* Between Tick calls
NoTick == [pc |-> "idle", Batches |-> <<>>, Class |-> "Comp", ActiveEntities |-> <<>>,
           ThreadIdx |-> 0, NumThreads |-> 1]

\* The tasks of the task graph that have not run to their end; fnResult lists the
\* tasks dispatched since the Tick call began, each with the number of entities it
\* has updated
Unfinished == {t \in DOMAIN fnResult : fnResult[t].Done < Len(fnResult[t].ThreadView)}

\* A variant of the wait that would return at once
NeverWaits == TRUE

\* FTaskGraphInterface::Get().WaitUntilTasksComplete(Tasks) can return: the tasks
\* this call of TickBatchParallel has dispatched are complete
TasksComplete == \A t \in Unfinished : fnResult[t].Class # fnArgs.Class

\* Tick up to its loop over the phases
JoinTickBegin(NumThreads) ==
    /\ ~crashed
    /\ fnArgs.pc = "idle"
    /\ TickCalls < MainTicks
    /\ FrameCounter' = (FrameCounter + 1) % FrameWrap
    /\ With(SortBatchesByPriority(UpdateConditionalTicks(
                ProcessDeferredOperationsImpl(CurrentState, PendingRegistrations,
                                              PendingUnregistrations))), LAMBDA st :
           /\ TypeBatches' = st.TB
           /\ GroupedBatches' = st.GB
           /\ SpatialBatch' = st.SB
           /\ FreedBuffers' = st.FB
           /\ Stats' = st.Stats
           /\ fnArgs' = [NoTick EXCEPT !.pc = "batches",
                                       !.Batches = BatchesInOrder(st.GB, TickOrder),
                                       !.NumThreads = NumThreads])
    /\ PendingRegistrations' = <<>>
    /\ PendingUnregistrations' = <<>>
    /\ fnResult' = <<>>
    /\ TickLog' = <<>>
    /\ lastOp' = "Tick.begin"
    /\ UNCHANGED aggVars
    /\ UNCHANGED <<bDebugMode, bVerboseDebug>>
    /\ UNCHANGED <<valid, active, bCanEverTick, CurrentTimeLow, crashed, TickCalls, cancelled>>

\* The loop of TickGroupBatches reaches its next batch: the throttle, the choice
\* between TickBatchParallel and TickBatch, and TickBatchParallel up to its shard loop
JoinBatchBegin ==
    /\ ~crashed
    /\ fnArgs.pc = "batches"
    /\ fnArgs.Batches # <<>>
    /\ LET cls == Head(fnArgs.Batches)
           Batch == TypeBatches[cls]
       IN  IF "LowPrio" \in Batch.Flags /\ (FrameCounter % ThrottleEvery) # 0
           THEN /\ fnArgs' = [fnArgs EXCEPT !.Batches = Tail(@)]
                /\ UNCHANGED TypeBatches
           ELSE IF CanTickInParallel(Batch) /\ Len(Batch.TickEntities) > ParallelMinEntities
                THEN With(TickBatchParallelPrologue(CurrentState, cls), LAMBDA p :
                         /\ TypeBatches' = p.St.TB
                         /\ fnArgs' = [fnArgs EXCEPT
                                !.pc = IF p.Parallel THEN "dispatch"
                                       ELSE IF p.Sequential THEN "sequential" ELSE "batches",
                                !.Batches = IF p.Parallel \/ p.Sequential THEN @ ELSE Tail(@),
                                !.Class = cls,
                                !.ActiveEntities = p.ActiveEntities,
                                !.ThreadIdx = 0])
                ELSE /\ fnArgs' = [fnArgs EXCEPT !.pc = "sequential", !.Class = cls]
                     /\ UNCHANGED TypeBatches
    /\ lastOp' = "TickGroupBatches.next"
    /\ UNCHANGED aggVars
    /\ UNCHANGED <<bDebugMode, bVerboseDebug>>
    /\ UNCHANGED <<valid, active, bCanEverTick, CurrentTimeLow, GroupedBatches, SpatialBatch,
                   FreedBuffers, PendingRegistrations, PendingUnregistrations, FrameCounter,
                   Stats, crashed, TickCalls, TickLog, cancelled, fnResult>>

\* One round of the shard loop of TickBatchParallel: a task is created and
\* dispatched for a shard that is not empty
JoinDispatch ==
    /\ ~crashed
    /\ fnArgs.pc = "dispatch"
    /\ fnArgs.ThreadIdx < fnArgs.NumThreads
    /\ With(Shard(fnArgs.ActiveEntities, fnArgs.ThreadIdx, fnArgs.NumThreads),
            LAMBDA ThreadView :
           fnResult' = IF ThreadView = <<>> THEN fnResult
                       ELSE Append(fnResult, [Class |-> fnArgs.Class,
                                              ThreadView |-> ThreadView, Done |-> 0]))
    /\ fnArgs' = [fnArgs EXCEPT !.ThreadIdx = @ + 1,
                                !.pc = IF fnArgs.ThreadIdx + 1 = fnArgs.NumThreads
                                       THEN "wait" ELSE "dispatch"]
    /\ lastOp' = "TickBatchParallel.dispatch"
    /\ UNCHANGED aggVars
    /\ UNCHANGED <<bDebugMode, bVerboseDebug>>
    /\ UNCHANGED <<valid, active, bCanEverTick, CurrentTimeLow, TypeBatches, GroupedBatches,
                   SpatialBatch, FreedBuffers, PendingRegistrations, PendingUnregistrations,
                   FrameCounter, Stats, crashed, TickCalls, TickLog, cancelled>>

\* A worker thread runs one round of the loop of a dispatched task: the update of
\* the task's next entity
JoinTaskRuns(t) ==
    /\ ~crashed
    /\ t \in Unfinished
    /\ fnResult' = [fnResult EXCEPT ![t].Done = @ + 1]
    /\ lastOp' = "TickBatchParallel.task"
    /\ UNCHANGED aggVars
    /\ UNCHANGED <<bDebugMode, bVerboseDebug>>
    /\ UNCHANGED <<valid, active, bCanEverTick, CurrentTimeLow, TypeBatches, GroupedBatches,
                   SpatialBatch, FreedBuffers, PendingRegistrations, PendingUnregistrations,
                   FrameCounter, Stats, crashed, TickCalls, TickLog, cancelled, fnArgs>>

\* The wait of TickBatchParallel is over: the call records its measurement and
\* returns.  The invocations of the tasks enter the log at the join, shard by shard.
JoinWait ==
    /\ ~crashed
    /\ fnArgs.pc = "wait"
    /\ TasksComplete
    /\ TypeBatches' = [TypeBatches EXCEPT ![fnArgs.Class].AverageTickTimeNs =
                                               MainNs[fnArgs.Class]]
    /\ TickLog' = TickLog \o ShardTasks(fnArgs.ActiveEntities, 0, fnArgs.NumThreads,
                                        fnArgs.Class)
    /\ fnArgs' = [fnArgs EXCEPT !.pc = "batches", !.Batches = Tail(@)]
    /\ lastOp' = "TickBatchParallel.return"
    /\ UNCHANGED aggVars
    /\ UNCHANGED <<bDebugMode, bVerboseDebug>>
    /\ UNCHANGED <<valid, active, bCanEverTick, CurrentTimeLow, GroupedBatches, SpatialBatch,
                   FreedBuffers, PendingRegistrations, PendingUnregistrations, FrameCounter,
                   Stats, crashed, TickCalls, cancelled, fnResult>>

\* TickBatch on the calling thread, from its first statement to its return
JoinSequential ==
    /\ ~crashed
    /\ fnArgs.pc = "sequential"
    /\ With(TickBatch(CurrentState, fnArgs.Class, MainNs[fnArgs.Class]), LAMBDA r :
           /\ TypeBatches' = r.St.TB
           /\ TickLog' = TickLog \o r.Log)
    /\ fnArgs' = [fnArgs EXCEPT !.pc = "batches", !.Batches = Tail(@)]
    /\ lastOp' = "TickBatch.return"
    /\ UNCHANGED aggVars
    /\ UNCHANGED <<bDebugMode, bVerboseDebug>>
    /\ UNCHANGED <<valid, active, bCanEverTick, CurrentTimeLow, GroupedBatches, SpatialBatch,
                   FreedBuffers, PendingRegistrations, PendingUnregistrations, FrameCounter,
                   Stats, crashed, TickCalls, cancelled, fnResult>>

\* The loop over the phases is over: Tick turns to the grid
JoinGridBegin ==
    /\ ~crashed
    /\ fnArgs.pc = "batches"
    /\ fnArgs.Batches = <<>>
    /\ fnArgs' = [fnArgs EXCEPT !.pc = "grid"]
    /\ lastOp' = "Tick.grid"
    /\ UNCHANGED aggVars
    /\ UNCHANGED <<bDebugMode, bVerboseDebug>>
    /\ UNCHANGED <<valid, active, bCanEverTick, CurrentTimeLow, TypeBatches, GroupedBatches,
                   SpatialBatch, FreedBuffers, PendingRegistrations, PendingUnregistrations,
                   FrameCounter, Stats, crashed, TickCalls, TickLog, cancelled, fnResult>>

\* The grid tick, the optimizer when due, and the return of Tick
JoinTickEnd(Fault) ==
    /\ ~crashed
    /\ fnArgs.pc = "grid"
    /\ With(IF DOMAIN SpatialBatch.GridCells # {}
            THEN TickAllGrids(CurrentState, Fault)
            ELSE [Log |-> <<>>, Crashed |-> FALSE], LAMBDA grid :
           /\ TickLog' = TickLog \o grid.Log
           /\ crashed' = grid.Crashed
           /\ With(IF ~grid.Crashed /\ FrameCounter % OptimizeEvery = 0
                   THEN OptimizeBatches(CurrentState) ELSE CurrentState, LAMBDA st :
                  /\ TypeBatches' = st.TB
                  /\ SpatialBatch' = st.SB
                  /\ Stats' = st.Stats))
    /\ TickCalls' = TickCalls + 1
    /\ fnArgs' = NoTick
    /\ lastOp' = "Tick"
    /\ UNCHANGED aggVars
    /\ UNCHANGED <<bDebugMode, bVerboseDebug>>
    /\ UNCHANGED <<valid, active, bCanEverTick, CurrentTimeLow, GroupedBatches, FreedBuffers,
                   PendingRegistrations, PendingUnregistrations, FrameCounter, cancelled,
                   fnResult>>

\* The components of the parallel batch: one more than the least size that
\* TickGroupBatches ticks in parallel
JoinComps == 1..(ParallelMinEntities + 1)

\* The component of the sequential batch of the same phase, which is in the grid
JoinMove == NumComp + 1

\* A parallel batch, all or all but the last of its components active, and a
\* sequential batch, ticked after it or, if high-priority, before it
InitJoin ==
    /\ CurrentTimeLow = FALSE
    /\ valid = [o \in Objects |-> TRUE]
    /\ \E inactive \in {{}, {ParallelMinEntities + 1}}, fM \in {{}, {"HighPrio"}} :
           /\ active = [o \in Objects |-> o \notin inactive]
           /\ With(ProcessRegistrations(FreshContainers,
                       [i \in JoinComps |-> <<i, {"UseParallel"}>>]
                       \o <<<<JoinMove, fM \cup {"SpatialAware"}>>>>), LAMBDA st :
                  /\ TypeBatches = st.TB
                  /\ GroupedBatches = st.GB
                  /\ SpatialBatch = st.SB
                  /\ FreedBuffers = st.FB
                  /\ Stats = st.Stats)
    /\ bCanEverTick = [c \in Components |-> c \notin JoinComps \cup {JoinMove}]
    /\ PendingRegistrations = <<>>
    /\ PendingUnregistrations = <<>>
    /\ FrameCounter = 1
    /\ bDebugMode = FALSE
    /\ FreshAggregator
    /\ bVerboseDebug = FALSE
    /\ crashed = FALSE
    /\ TickCalls = 0
    /\ TickLog = <<>>
    /\ lastOp = "Init"
    /\ cancelled = {}
    /\ fnArgs = NoTick
    /\ fnResult = <<>>

NextJoin ==
    \/ \E n \in 1..MaxThreads : JoinTickBegin(n)
    \/ JoinBatchBegin
    \/ JoinDispatch
    \/ \E t \in DOMAIN fnResult : JoinTaskRuns(t)
    \/ JoinWait
    \/ JoinSequential
    \/ JoinGridBegin
    \/ \E Fault \in BOOLEAN : JoinTickEnd(Fault)

SpecJoin == InitJoin /\ [][NextJoin]_vars

\* The batches whose entity updates can be executing: those with an unfinished task,
\* and the batch whose TickBatch runs on the calling thread
Updating ==
    {fnResult[t].Class : t \in Unfinished}
    \cup (IF fnArgs.pc = "sequential" THEN {fnArgs.Class} ELSE {})

\* C25: updates of two different batches never execute at the same time:
\* TickBatchParallel returns only when every task it dispatched is complete, and the
\* tick of the next batch, and the grid tick, begin only when no task is unfinished.
C25_OneBatchAtATime ==
    /\ Cardinality(Updating) <= 1
    /\ fnArgs.pc \in {"dispatch", "wait"} => Updating \subseteq {fnArgs.Class}
    /\ fnArgs.pc \in {"batches", "grid", "idle"} => Unfinished = {}

\* The sequential batch is being ticked after the parallel batch, whose three tasks
\* are complete
C25_Witness ==
    /\ fnArgs.pc = "sequential"
    /\ fnArgs.Class = "Move"
    /\ Len(fnResult) = MaxThreads
    /\ Unfinished = {}

-----------------------------------------------------------------------------
(* The shards of TickBatchParallel, for every number of entities and of workers *)

\* No call of TickBatchParallel is running
NoCall == [NoTick EXCEPT !.pc = "batches"]

\* A direct call of Batch.TickBatchParallel(DeltaTime) with NumThreads workers, up
\* to its shard loop
ShardCallBegin(cls, NumThreads) ==
    /\ ~crashed
    /\ fnArgs.pc = "batches"
    /\ fnArgs.Batches = <<>>
    /\ Unfinished = {}
    /\ cls \in DOMAIN TypeBatches
    /\ With(TickBatchParallelPrologue(CurrentState, cls), LAMBDA p :
           /\ p.Parallel
           /\ TypeBatches' = p.St.TB
           /\ fnArgs' = [pc |-> "dispatch", Batches |-> <<cls>>, Class |-> cls,
                         ActiveEntities |-> p.ActiveEntities, ThreadIdx |-> 0,
                         NumThreads |-> NumThreads])
    /\ fnResult' = <<>>
    /\ TickLog' = <<>>
    /\ lastOp' = "TickBatchParallel.begin"
    /\ UNCHANGED aggVars
    /\ UNCHANGED <<bDebugMode, bVerboseDebug>>
    /\ UNCHANGED <<valid, active, bCanEverTick, CurrentTimeLow, GroupedBatches, SpatialBatch,
                   FreedBuffers, PendingRegistrations, PendingUnregistrations, FrameCounter,
                   Stats, crashed, TickCalls, cancelled>>

\* A batch of 1 to NumComp different components flagged for parallel ticking, the
\* last of them active or not
InitShard ==
    /\ CurrentTimeLow = FALSE
    /\ valid = [o \in Objects |-> TRUE]
    /\ \E n \in 1..NumComp, inactive \in BOOLEAN :
           /\ active = [o \in Objects |-> ~(inactive /\ o = n)]
           /\ bCanEverTick = [c \in Components |-> c > n]
           /\ With(ProcessRegistrations(FreshContainers,
                                        [i \in 1..n |-> <<i, {"UseParallel"}>>]), LAMBDA st :
                  /\ TypeBatches = st.TB
                  /\ GroupedBatches = st.GB
                  /\ SpatialBatch = st.SB
                  /\ FreedBuffers = st.FB
                  /\ Stats = st.Stats)
    /\ PendingRegistrations = <<>>
    /\ PendingUnregistrations = <<>>
    /\ FrameCounter = 1
    /\ bDebugMode = FALSE
    /\ FreshAggregator
    /\ bVerboseDebug = FALSE
    /\ crashed = FALSE
    /\ TickCalls = 0
    /\ TickLog = <<>>
    /\ lastOp = "Init"
    /\ cancelled = {}
    /\ fnArgs = NoCall
    /\ fnResult = <<>>

NextShard ==
    \/ \E n \in 1..MaxThreads : ShardCallBegin("Comp", n)
    \/ JoinDispatch
    \/ \E t \in DOMAIN fnResult : JoinTaskRuns(t)
    \/ JoinWait

SpecShard == InitShard /\ [][NextShard]_vars

\* The entities of the tasks from task t on, in the order of dispatch
RECURSIVE ThreadViews(_, _)
ThreadViews(Tasks, t) ==
    IF t > Len(Tasks) THEN <<>> ELSE Tasks[t].ThreadView \o ThreadViews(Tasks, t + 1)

\* C26: when TickBatchParallel returns, the shards it dispatched, in the order of
\* dispatch, are consecutive pieces of the sequence of active entities that together
\* make up the whole sequence, none longer than the number of active entities divided
\* by the number of workers, rounded up; every task has updated each entity of its
\* shard once, so every active entity is invoked exactly once.
C26_ShardsPartition ==
    lastOp = "TickBatchParallel.return" =>
        /\ ThreadViews(fnResult, 1) = fnArgs.ActiveEntities
        /\ Len(fnResult) <= fnArgs.NumThreads
        /\ \A t \in DOMAIN fnResult :
               /\ fnResult[t].ThreadView # <<>>
               /\ Len(fnResult[t].ThreadView)
                      <= CeilDiv(Len(fnArgs.ActiveEntities), fnArgs.NumThreads)
               /\ fnResult[t].Done = Len(fnResult[t].ThreadView)
        /\ \A i \in DOMAIN fnArgs.ActiveEntities :
               Invocations(TickLog, fnArgs.ActiveEntities[i].Object) = 1

\* TickBatchParallel has returned after it split seven active entities among three
\* workers, into shards of three, three and one
C26_Witness ==
    /\ lastOp = "TickBatchParallel.return"
    /\ fnArgs.NumThreads = 3
    /\ Len(fnArgs.ActiveEntities) = 7
    /\ Len(fnResult) = 3
    /\ Len(fnResult[3].ThreadView) = 1

-----------------------------------------------------------------------------
(* The pointers of the grid *)

\* C27: after any sequence of registrations, unregistrations and Tick calls, every
\* pointer the grid holds refers to a descriptor that is stored in a batch: none
\* refers to a slot past the end of its array or to a buffer the array has released.
C27_GridPointersLive ==
    ~crashed => \A p \in GridPtrs(SpatialBatch) : Deref(CurrentState, p).Kind = "live"

-----------------------------------------------------------------------------
(* The grid under direct calls of AddEntity and RemoveEntity *)

\* Components of cell 0, of cell 1 and, 64 cells further on X, of cell 0 again, and
\* a component of another batch
CellObjects == {1, 2, 3, NumComp + 1}

\* The addresses of the descriptors the batches hold
LivePtrs ==
    UNION {{EntityPtr(TypeBatches[cls], i) : i \in DOMAIN TypeBatches[cls].TickEntities} :
               cls \in DOMAIN TypeBatches}

\* A direct call of SpatialBatch.AddEntity(Entity)
CallAddEntity(p) ==
    /\ ~crashed
    /\ p \in LivePtrs
    /\ Len(SpatialBatch.AllSpatialEntities) < MaxLen
    /\ With(AddEntity(CurrentState, p), LAMBDA st :
           /\ TypeBatches' = st.TB
           /\ SpatialBatch' = st.SB)
    /\ fnArgs' = p
    /\ fnResult' = SpatialBatch
    /\ lastOp' = "AddEntity"
    /\ UNCHANGED aggVars
    /\ UNCHANGED <<bDebugMode, bVerboseDebug>>
    /\ UNCHANGED <<valid, active, bCanEverTick, CurrentTimeLow, GroupedBatches, FreedBuffers,
                   PendingRegistrations, PendingUnregistrations, FrameCounter, Stats, crashed,
                   TickCalls, TickLog, cancelled>>

\* A direct call of SpatialBatch.RemoveEntity(Entity)
CallRemoveEntity(p) ==
    /\ ~crashed
    /\ p \in LivePtrs
    /\ With(RemoveEntity(CurrentState, p), LAMBDA st :
           /\ TypeBatches' = st.TB
           /\ SpatialBatch' = st.SB)
    /\ fnArgs' = p
    /\ fnResult' = SpatialBatch
    /\ lastOp' = "RemoveEntity"
    /\ UNCHANGED aggVars
    /\ UNCHANGED <<bDebugMode, bVerboseDebug>>
    /\ UNCHANGED <<valid, active, bCanEverTick, CurrentTimeLow, GroupedBatches, FreedBuffers,
                   PendingRegistrations, PendingUnregistrations, FrameCounter, Stats, crashed,
                   TickCalls, TickLog, cancelled>>

\* Batches of up to MaxLen - 1 descriptors, none of them in the grid
InitCell ==
    /\ CurrentTimeLow = FALSE
    /\ \E objs \in SeqsUpTo(CellObjects, MaxLen - 1) :
           AfterFirstFlush([i \in DOMAIN objs |-> <<objs[i], {}>>], {})

NextCell ==
    \/ \E p \in LivePtrs : CallAddEntity(p)
    \/ \E p \in LivePtrs : CallRemoveEntity(p)

SpecCell == InitCell /\ [][NextCell]_vars

\* C28: after any sequence of AddEntity and RemoveEntity calls on descriptors the
\* batches hold, no cell of the grid is empty, the flat list holds exactly the
\* pointers the cells hold, each as often as the cells do, and every pointer sits in
\* the cell whose key is the bucket id recorded in its descriptor.
C28_GridConsistent ==
    /\ \A k \in DOMAIN SpatialBatch.GridCells : SpatialBatch.GridCells[k] # <<>>
    /\ BagOf(SpatialBatch.AllSpatialEntities)
           = BagOf(CellPtrs(SpatialBatch.GridCells, SetToSeq(DOMAIN SpatialBatch.GridCells)))
    /\ \A k \in DOMAIN SpatialBatch.GridCells :
           \A i \in DOMAIN SpatialBatch.GridCells[k] :
               Deref(CurrentState, SpatialBatch.GridCells[k][i]).Data.SpatialBucketId = k

\* RemoveEntity has removed the only pointer of a cell, added twice, and the grid
\* still holds another cell
C28_Witness ==
    /\ lastOp = "RemoveEntity"
    /\ Count(fnResult.AllSpatialEntities, LAMBDA q : q = fnArgs) = 2
    /\ fnArgs \notin GridPtrs(SpatialBatch)
    /\ DOMAIN fnResult.GridCells # DOMAIN SpatialBatch.GridCells
    /\ DOMAIN SpatialBatch.GridCells # {}

-----------------------------------------------------------------------------
(* The optimizer's migration of a spatial class into the grid *)

NextMigrate ==
    \/ \E o \in PrimObjects, f \in MainFlags : RegisterComponent(o, f)
    \/ \E Fault \in BOOLEAN : TickCalls < MainTicks /\ Tick(MainNs, 1, Fault)
    \/ OptimizeBatchesCall

SpecMigrate == Init /\ [][NextMigrate]_vars

\* C29: after any pass of the optimizer, the grid holds no pointer more than once:
\* the migration does not insert again a descriptor the flush had inserted because it
\* was registered with the spatial-aware flag.
C29_MigratedOnce ==
    (lastOp = "OptimizeBatches" /\ ~crashed) =>
        \A p \in GridPtrs(SpatialBatch) :
            Count(SpatialBatch.AllSpatialEntities, LAMBDA q : q = p) <= 1

-----------------------------------------------------------------------------
(* The refresh of the enabled flags *)

\* Two components of one batch and the actor, which has a batch of its own
RefreshObjects == {1, 2, NumComp + NumMove + 1}

RefreshFlags == {{}, {"Conditional"}}

\* The call of UpdateConditionalTicks() in Tick
CallUpdateConditionalTicks ==
    /\ ~crashed
    /\ TickCalls < MainTicks
    /\ TypeBatches' = UpdateConditionalTicks(CurrentState).TB
    /\ fnArgs' = TypeBatches
    /\ fnResult' = UpdateConditionalTicks(CurrentState).TB
    /\ TickCalls' = TickCalls + 1
    /\ lastOp' = "UpdateConditionalTicks"
    /\ UNCHANGED aggVars
    /\ UNCHANGED <<bDebugMode, bVerboseDebug>>
    /\ UNCHANGED <<valid, active, bCanEverTick, CurrentTimeLow, GroupedBatches, SpatialBatch,
                   FreedBuffers, PendingRegistrations, PendingUnregistrations, FrameCounter,
                   Stats, crashed, TickLog, cancelled>>

\* A batch of two components and a batch of the actor, each conditional or not, any
\* of the objects registered while inactive
InitRefresh ==
    /\ CurrentTimeLow = FALSE
    /\ \E fC \in RefreshFlags, fP \in RefreshFlags, inactive \in SUBSET RefreshObjects :
           AfterFirstFlush(<<<<1, fC>>, <<2, fC>>, <<NumComp + NumMove + 1, fP>>>>, inactive)

NextRefresh ==
    \/ \E o \in RefreshObjects : DestroyObject(o)
    \/ \E o \in RefreshObjects, b \in BOOLEAN : SetActive(o, b)
    \/ CallUpdateConditionalTicks

SpecRefresh == InitRefresh /\ [][NextRefresh]_vars

\* C30: UpdateConditionalTicks leaves every descriptor of a batch flagged Conditional
\* enabled exactly if its object is valid and active, and leaves every batch not
\* flagged Conditional as it was.
C30_RefreshConditionalOnly ==
    lastOp = "UpdateConditionalTicks" =>
        /\ DOMAIN TypeBatches = DOMAIN fnArgs
        /\ \A cls \in DOMAIN TypeBatches :
               IF "Conditional" \in fnArgs[cls].Flags
               THEN /\ Len(TypeBatches[cls].TickEntities) = Len(fnArgs[cls].TickEntities)
                    /\ \A i \in DOMAIN TypeBatches[cls].TickEntities :
                           LET d == TypeBatches[cls].TickEntities[i]
                           IN  /\ d.Object = fnArgs[cls].TickEntities[i].Object
                               /\ d.bEnabled = (valid[d.Object] /\ active[d.Object])
               ELSE TypeBatches[cls] = fnArgs[cls]

\* A refresh has disabled a descriptor of a conditional batch, and has left enabled
\* the descriptor of a destroyed object in a batch that is not conditional
C30_Witness ==
    /\ lastOp = "UpdateConditionalTicks"
    /\ \E cls \in DOMAIN TypeBatches :
           /\ "Conditional" \in TypeBatches[cls].Flags
           /\ \E i \in DOMAIN TypeBatches[cls].TickEntities :
                  /\ fnArgs[cls].TickEntities[i].bEnabled
                  /\ ~TypeBatches[cls].TickEntities[i].bEnabled
    /\ \E cls \in DOMAIN TypeBatches :
           /\ "Conditional" \notin TypeBatches[cls].Flags
           /\ \E i \in DOMAIN TypeBatches[cls].TickEntities :
                  /\ TypeBatches[cls].TickEntities[i].bEnabled
                  /\ ~valid[TypeBatches[cls].TickEntities[i].Object]

-----------------------------------------------------------------------------
(* Registrations and unregistrations of plain components, without the grid *)

NextTwice ==
    \/ \E o \in MainObjects : RegisterComponent(o, {})
    \/ \E o \in MainObjects : UnregisterComponent(o)
    \/ TickCalls < MainTicks /\ Tick(MainNs, 1, FALSE)

SpecTwice == Init /\ [][NextTwice]_vars

-----------------------------------------------------------------------------
(* The flags and the tick group of a batch under every operation on the batch *)

FrameObjects == {1}

FrameFlags == {{"UseParallel"}, {"SpatialAware"}}

\* The duration every batch tick measures per entity, in ns: short enough for the
\* optimizer to flag the batch low-priority
FrameNs == [cls \in Classes |-> 50]

NextFrame ==
    \/ \E o \in FrameObjects, f \in FrameFlags : RegisterComponent(o, f)
    \/ \E o \in FrameObjects : UnregisterComponent(o)
    \/ TickCalls < MainTicks - 1 /\ Tick(FrameNs, MaxThreads, FALSE)
    \/ OptimizeBatchesCall
    \/ /\ "Comp" \in DOMAIN TypeBatches
       /\ CanTickInParallel(TypeBatches["Comp"])
       /\ CallTickBatchParallel("Comp", 50, MaxThreads)

\* The fresh scheduler in a process that has run for more than 30 seconds
InitFrame ==
    /\ Init
    /\ ~CurrentTimeLow

SpecFrame == InitFrame /\ [][NextFrame]_vars

\* The step runs the optimizer: a call of OptimizeBatches, or a Tick call on a
\* frame the optimizer is due
OptimizerPass ==
    \/ lastOp' = "OptimizeBatches"
    \/ lastOp' = "Tick" /\ FrameCounter' % OptimizeEvery = 0

\* C31: the flag set and the tick group of a batch change only when a flush
\* creates the batch and in an optimizer pass: a batch tick (sequential or
\* parallel), a flush of further registrations into the batch, whatever their
\* flags, and a flush of unregistrations leave both as they were
C31_Step ==
    /\ DOMAIN TypeBatches' # DOMAIN TypeBatches =>
           lastOp' = "Tick" /\ DOMAIN TypeBatches \subseteq DOMAIN TypeBatches'
    /\ ~OptimizerPass =>
           \A cls \in DOMAIN TypeBatches \cap DOMAIN TypeBatches' :
               /\ TypeBatches'[cls].Flags = TypeBatches[cls].Flags
               /\ TypeBatches'[cls].TickGroup = TypeBatches[cls].TickGroup

C31_FlagsAndGroupStable == [][C31_Step]_vars

\* A Tick call has flushed a spatial-aware registration into a batch created
\* without that flag, and has ticked the batch
C31_Witness ==
    /\ lastOp = "Tick"
    /\ ~crashed
    /\ "Comp" \in DOMAIN TypeBatches
    /\ "SpatialAware" \notin TypeBatches["Comp"].Flags
    /\ SpatialBatch.AllSpatialEntities # <<>>
    /\ \E i \in DOMAIN TickLog : TickLog[i].Batch = "Comp"

-----------------------------------------------------------------------------
(* The net effect of the calls made between two flushes *)

\* The last RegisterComponent or UnregisterComponent call on component o was a
\* RegisterComponent: the call takes the component's own tick away
\* (bCanEverTick = false), UnregisterComponent gives it back
LastCallRegistered(o) == ~bCanEverTick[o]

\* Some RegisterComponent or UnregisterComponent call on o is waiting for the flush
CalledSinceFlush(o) == Requests(o) > 0 \/ o \in Range(PendingUnregistrations)

C32_Step ==
    (lastOp' = "Tick" /\ ~crashed') =>
        \A o \in Components :
            (valid[o] /\ CalledSinceFlush(o))
                => (Descriptors(TypeBatches', o) > 0 <=> LastCallRegistered(o))

\* C32: a flush applies the pending calls with the net effect of their order: a
\* valid component with register or unregister calls between two flushes has a
\* descriptor after the flush if and only if the last of those calls was a register
C32_LastCallWins == [][C32_Step]_vars

-----------------------------------------------------------------------------
(* Components of a conditional batch that stop and start again *)

\* Three components of one batch
ReviveObjects == {1, 2, 3}

\* The batch as a first flush has filled it, flagged Conditional, every component
\* active
InitRevive ==
    /\ CurrentTimeLow = FALSE
    /\ AfterFirstFlush([i \in 1..3 |-> <<i, {"Conditional"}>>], {})

NextRevive ==
    \/ \E o \in ReviveObjects, b \in BOOLEAN : SetActive(o, b)
    \/ TickCalls < MainTicks /\ Tick(MainNs, 1, FALSE)

SpecRevive == InitRevive /\ [][NextRevive]_vars

\* Object o has a descriptor in TB that is enabled
EnabledIn(TB, o) ==
    /\ ClassOf(o) \in DOMAIN TB
    /\ \E i \in DOMAIN TB[ClassOf(o)].TickEntities :
           /\ TB[ClassOf(o)].TickEntities[i].Object = o
           /\ TB[ClassOf(o)].TickEntities[i].bEnabled

\* The invocations of log that ran the update of object o
Updates(log, o) == {i \in DOMAIN log : log[i].Object = o /\ log[i].Ran}

\* A Tick call on a component of the batch that an earlier call found inactive
\* (it has no enabled descriptor) and that is active again invokes the component
C33_Step ==
    (lastOp' = "Tick" /\ ~crashed') =>
        \A o \in ReviveObjects :
            (active[o] /\ ~EnabledIn(TypeBatches, o)) => Updates(TickLog', o) # {}

\* C33: a registered, never unregistered component of a Conditional batch that was
\* inactive for one or more Tick calls and is active again is invoked by the next
\* Tick call that ticks its batch
C33_InvokedAgain == [][C33_Step]_vars

-----------------------------------------------------------------------------
(* The statistics snapshot *)

\* The number of descriptors held by the batches of classes, a set of classes
RECURSIVE DescriptorsHeld(_, _)
DescriptorsHeld(TB, classes) ==
    IF classes = {} THEN 0
    ELSE LET cls == CHOOSE c \in classes : TRUE
         IN  Len(TB[cls].TickEntities) + DescriptorsHeld(TB, classes \ {cls})

\* C34: after every Tick call, the registered count of the statistics snapshot
\* equals the number of descriptors held across all batches
C34_RegisteredCountExact ==
    (lastOp = "Tick" /\ ~crashed) =>
        Stats.TotalRegisteredEntities = DescriptorsHeld(TypeBatches, DOMAIN TypeBatches)

-----------------------------------------------------------------------------
(* Spatial-aware batches and the grid *)

\* The grid holds a pointer to element i of the batch of class cls
InGrid(cls, i) == EntityPtr(TypeBatches[cls], i) \in GridPtrs(SpatialBatch)

\* C35: at the end of an optimizer pass, every enabled, valid member of a batch
\* flagged SpatialAware is referenced by the grid, whether the flag comes from the
\* spatial-classification hint or from a specialization
C35_SpatialBatchInGrid ==
    (lastOp = "OptimizeBatches" /\ ~crashed) =>
        \A cls \in DOMAIN TypeBatches :
            "SpatialAware" \in TypeBatches[cls].Flags =>
                \A i \in DOMAIN TypeBatches[cls].TickEntities :
                    IsActiveEntity(TypeBatches[cls].TickEntities[i]) => InGrid(cls, i)

-----------------------------------------------------------------------------
(* UTickAggregatorSubsystem: the lists of components and actors per tick group *)

\* TArray::AddUnique
AddUnique(s, x) == IF x \in Range(s) THEN s ELSE Append(s, x)

\* AActor::GetRootComponent() is not null
HasRootComponent(Actor) == ComponentsOf(Actor) # <<>>

GetComponentTickGroup(Component) ==
    IF valid[Component] THEN PrimaryTickGroup[Component] ELSE "TG_PrePhysics"

GetActorTickGroup(Actor) ==
    IF valid[Actor] /\ HasRootComponent(Actor) THEN PrimaryTickGroup[Actor]
    ELSE "TG_PrePhysics"

\* GroupedComponents.FindOrAdd(TickGroup).AddUnique(Object), on either map
AddedToGroup(Grouped, TickGroup, Object) ==
    [Grouped EXCEPT ![TickGroup] = AddUnique(@, Object)]

\* Pair.Value.Remove(Object) for every pair of the map
RemovedFromGroups(Grouped, Object) ==
    [g \in DOMAIN Grouped |-> RemoveAll(Grouped[g], Object)]

\* One update made by TickGroupObjects: Component->TickComponent / Actor->Tick
AggregatedTick(o, Group) == [Object |-> o, Via |-> "agg", Batch |-> Group, Ran |-> TRUE]

\* The loop over one list of weak pointers: those that still resolve are ticked
RECURSIVE TickList(_, _)
TickList(List, Group) ==
    IF List = <<>> THEN <<>>
    ELSE (IF valid[Head(List)] THEN <<AggregatedTick(Head(List), Group)>> ELSE <<>>)
         \o TickList(Tail(List), Group)

\* TickGroupObjects(Group, DeltaTime): the components of the group, then its actors
TickGroupObjects(Group) ==
    TickList(GroupedComponents[Group], Group) \o TickList(GroupedActors[Group], Group)

RECURSIVE TickGroupsInOrder(_)
TickGroupsInOrder(Groups) ==
    IF Groups = <<>> THEN <<>>
    ELSE TickGroupObjects(Head(Groups)) \o TickGroupsInOrder(Tail(Groups))

\* The critical section is free: a FScopeLock on it is taken without waiting
SectionFree == GroupedObjectsCriticalSection.Owner = "none"

RegisterTickableComponent(Component) ==
    /\ ~crashed
    /\ SectionFree
    /\ lastOp' = "RegisterTickableComponent"
    /\ IF valid[Component]
       THEN /\ GroupedComponents' =
                   AddedToGroup(GroupedComponents, GetComponentTickGroup(Component), Component)
            /\ bCanEverTick' = [bCanEverTick EXCEPT ![Component] = FALSE]
            /\ active' = [active EXCEPT ![Component] = TRUE]
       ELSE UNCHANGED <<GroupedComponents, bCanEverTick, active>>
    /\ UNCHANGED <<valid, CurrentTimeLow, TypeBatches, GroupedBatches, SpatialBatch,
                   FreedBuffers, PendingRegistrations, PendingUnregistrations, FrameCounter,
                   Stats, bDebugMode, bVerboseDebug, crashed, TickCalls, TickLog, cancelled,
                   fnArgs, fnResult, PrimaryTickGroup, GroupedActors,
                   GroupedObjectsCriticalSection>>

UnregisterTickableComponent(Component) ==
    /\ ~crashed
    /\ SectionFree
    /\ lastOp' = "UnregisterTickableComponent"
    /\ IF valid[Component]
       THEN /\ GroupedComponents' = RemovedFromGroups(GroupedComponents, Component)
            /\ bCanEverTick' = [bCanEverTick EXCEPT ![Component] = TRUE]
       ELSE UNCHANGED <<GroupedComponents, bCanEverTick>>
    /\ UNCHANGED <<valid, active, CurrentTimeLow, TypeBatches, GroupedBatches, SpatialBatch,
                   FreedBuffers, PendingRegistrations, PendingUnregistrations, FrameCounter,
                   Stats, bDebugMode, bVerboseDebug, crashed, TickCalls, TickLog, cancelled,
                   fnArgs, fnResult, PrimaryTickGroup, GroupedActors,
                   GroupedObjectsCriticalSection>>

RegisterTickableActor(Actor) ==
    /\ ~crashed
    /\ SectionFree
    /\ lastOp' = "RegisterTickableActor"
    /\ IF valid[Actor]
       THEN /\ GroupedActors' = AddedToGroup(GroupedActors, GetActorTickGroup(Actor), Actor)
            /\ active' = [active EXCEPT ![Actor] = FALSE]
       ELSE UNCHANGED <<GroupedActors, active>>
    /\ UNCHANGED <<valid, bCanEverTick, CurrentTimeLow, TypeBatches, GroupedBatches,
                   SpatialBatch, FreedBuffers, PendingRegistrations, PendingUnregistrations,
                   FrameCounter, Stats, bDebugMode, bVerboseDebug, crashed, TickCalls, TickLog,
                   cancelled, fnArgs, fnResult, PrimaryTickGroup, GroupedComponents,
                   GroupedObjectsCriticalSection>>

UnregisterTickableActor(Actor) ==
    /\ ~crashed
    /\ SectionFree
    /\ lastOp' = "UnregisterTickableActor"
    /\ IF valid[Actor]
       THEN /\ GroupedActors' = RemovedFromGroups(GroupedActors, Actor)
            /\ active' = [active EXCEPT ![Actor] = TRUE]
       ELSE UNCHANGED <<GroupedActors, active>>
    /\ UNCHANGED <<valid, bCanEverTick, CurrentTimeLow, TypeBatches, GroupedBatches,
                   SpatialBatch, FreedBuffers, PendingRegistrations, PendingUnregistrations,
                   FrameCounter, Stats, bDebugMode, bVerboseDebug, crashed, TickCalls, TickLog,
                   cancelled, fnArgs, fnResult, PrimaryTickGroup, GroupedComponents,
                   GroupedObjectsCriticalSection>>

\* UTickAggregatorSubsystem::Tick(DeltaTime), no update calling back into the
\* subsystem
AggregatorTick ==
    /\ ~crashed
    /\ SectionFree
    /\ TickCalls < MainTicks
    /\ lastOp' = "TickAggregator.Tick"
    /\ TickLog' = TickGroupsInOrder(TickOrder)
    /\ TickCalls' = TickCalls + 1
    /\ UNCHANGED <<valid, active, bCanEverTick, CurrentTimeLow, TypeBatches, GroupedBatches,
                   SpatialBatch, FreedBuffers, PendingRegistrations, PendingUnregistrations,
                   FrameCounter, Stats, bDebugMode, bVerboseDebug, crashed, cancelled, fnArgs,
                   fnResult>>
    /\ UNCHANGED aggVars

\* The game moves an object to another tick group (SetTickGroup)
SetTickGroup(o, NewTickGroup) ==
    /\ ~crashed
    /\ valid[o]
    /\ PrimaryTickGroup[o] # NewTickGroup
    /\ PrimaryTickGroup' = [PrimaryTickGroup EXCEPT ![o] = NewTickGroup]
    /\ lastOp' = "SetTickGroup"
    /\ UNCHANGED <<valid, active, bCanEverTick, CurrentTimeLow, TypeBatches, GroupedBatches,
                   SpatialBatch, FreedBuffers, PendingRegistrations, PendingUnregistrations,
                   FrameCounter, Stats, bDebugMode, bVerboseDebug, crashed, TickCalls, TickLog,
                   cancelled, fnArgs, fnResult, GroupedComponents, GroupedActors,
                   GroupedObjectsCriticalSection>>

\* A component, and the actor, which has a root component
AggObjects == {1, NumComp + NumMove + 1}

AggGroups == {"TG_PrePhysics", "TG_PostPhysics"}

NextAgg ==
    \/ \E c \in AggObjects \cap Components : RegisterTickableComponent(c)
    \/ \E c \in AggObjects \cap Components : UnregisterTickableComponent(c)
    \/ \E a \in AggObjects \cap ActorObjects : RegisterTickableActor(a)
    \/ \E a \in AggObjects \cap ActorObjects : UnregisterTickableActor(a)
    \/ \E o \in AggObjects, g \in AggGroups : SetTickGroup(o, g)
    \/ \E o \in AggObjects : DestroyObject(o)
    \/ AggregatorTick

SpecAgg == Init /\ [][NextAgg]_vars

\* C36: in the TickAggregator subsystem, every live registered component or actor
\* is ticked at most once per Tick call, after any sequence of register and
\* unregister calls, repeated registration of one object and registration again
\* after the object's tick group has changed included
C36_AtMostOncePerTick ==
    lastOp = "TickAggregator.Tick" =>
        \A o \in Objects : valid[o] => Invocations(TickLog, o) <= 1

-----------------------------------------------------------------------------
(* UTickAggregatorSubsystem::Tick, one update at a time, under the critical     *)
(* section, with register and unregister calls made by another thread and by    *)
(* the updates themselves                                                       *)

\* No Tick call is running
NoAggregatorTick == [pc |-> "idle", Groups |-> <<>>, Index |-> 0]

\* FScopeLock on the critical section by thread: FCriticalSection is recursive, so
\* the thread that owns it enters again without waiting
CanEnter(thread) == GroupedObjectsCriticalSection.Owner \in {"none", thread}

\* The list the running Tick call iterates
IteratedList(GC, GA) ==
    IF fnArgs.pc = "components" THEN GC[Head(fnArgs.Groups)] ELSE GA[Head(fnArgs.Groups)]

\* The calls an update can make back into the subsystem
ReentrantCalls ==
    {<<"None", 0>>}
    \cup {<<f, c>> : f \in {"RegisterTickableComponent", "UnregisterTickableComponent"},
                     c \in {1}}
    \cup {<<f, a>> : f \in {"RegisterTickableActor", "UnregisterTickableActor"},
                     a \in {NumComp + NumMove + 1}}

\* What a call made by an update leaves behind; the scoped lock of the call is
\* taken and released within the call
Reentered(Call) ==
    LET f == Call[1]
        o == Call[2]
        ok == f # "None" /\ valid[o]
    IN  [GC |-> IF ok /\ f = "RegisterTickableComponent"
                THEN AddedToGroup(GroupedComponents, GetComponentTickGroup(o), o)
                ELSE IF ok /\ f = "UnregisterTickableComponent"
                THEN RemovedFromGroups(GroupedComponents, o)
                ELSE GroupedComponents,
         GA |-> IF ok /\ f = "RegisterTickableActor"
                THEN AddedToGroup(GroupedActors, GetActorTickGroup(o), o)
                ELSE IF ok /\ f = "UnregisterTickableActor"
                THEN RemovedFromGroups(GroupedActors, o)
                ELSE GroupedActors,
         CanTick |-> IF ok /\ f = "RegisterTickableComponent"
                     THEN [bCanEverTick EXCEPT ![o] = FALSE]
                     ELSE IF ok /\ f = "UnregisterTickableComponent"
                     THEN [bCanEverTick EXCEPT ![o] = TRUE]
                     ELSE bCanEverTick,
         Active |-> IF ok /\ f \in {"RegisterTickableComponent", "UnregisterTickableActor"}
                    THEN [active EXCEPT ![o] = TRUE]
                    ELSE IF ok /\ f = "RegisterTickableActor"
                    THEN [active EXCEPT ![o] = FALSE]
                    ELSE active]

\* Tick takes the critical section and starts with the components of the first group
AggTickBegin ==
    /\ ~crashed
    /\ TickCalls < MainTicks - 1
    /\ fnArgs.pc = "idle"
    /\ CanEnter("driver")
    /\ GroupedObjectsCriticalSection' = [Owner |-> "driver", Count |-> 1]
    /\ fnArgs' = [pc |-> "components", Groups |-> TickOrder, Index |-> 0]
    /\ TickLog' = <<>>
    /\ lastOp' = "TickAggregator.Tick.lock"
    /\ UNCHANGED <<valid, active, bCanEverTick, CurrentTimeLow, TypeBatches, GroupedBatches,
                   SpatialBatch, FreedBuffers, PendingRegistrations, PendingUnregistrations,
                   FrameCounter, Stats, bDebugMode, bVerboseDebug, crashed, TickCalls,
                   cancelled, fnResult, PrimaryTickGroup, GroupedComponents, GroupedActors>>

\* One round of a loop of TickGroupObjects: the element under the iterator is
\* ticked if its weak pointer resolves, its update makes the call Call, and the
\* iterator moves on
AggTickObject(Call) ==
    /\ fnArgs.pc \in {"components", "actors"}
    /\ fnArgs.Index < Len(IteratedList(GroupedComponents, GroupedActors))
    /\ With(IteratedList(GroupedComponents, GroupedActors)[fnArgs.Index + 1], LAMBDA o :
           IF valid[o]
           THEN /\ CanEnter("driver")
                /\ TickLog' = Append(TickLog, AggregatedTick(o, Head(fnArgs.Groups)))
                /\ GroupedComponents' = Reentered(Call).GC
                /\ GroupedActors' = Reentered(Call).GA
                /\ bCanEverTick' = Reentered(Call).CanTick
                /\ active' = Reentered(Call).Active
           ELSE /\ Call[1] = "None"
                /\ UNCHANGED <<TickLog, GroupedComponents, GroupedActors, bCanEverTick,
                               active>>)
    /\ fnArgs' = [fnArgs EXCEPT !.Index = @ + 1]
    /\ lastOp' = "TickAggregator.Tick.update"
    /\ UNCHANGED <<valid, CurrentTimeLow, TypeBatches, GroupedBatches, SpatialBatch,
                   FreedBuffers, PendingRegistrations, PendingUnregistrations, FrameCounter,
                   Stats, bDebugMode, bVerboseDebug, crashed, TickCalls, cancelled, fnResult,
                   PrimaryTickGroup, GroupedObjectsCriticalSection>>

\* The iterator has left the list: on to the actors of the group, or to the
\* components of the next group
AggNextList ==
    /\ fnArgs.pc \in {"components", "actors"}
    /\ fnArgs.Index >= Len(IteratedList(GroupedComponents, GroupedActors))
    /\ fnArgs.pc = "actors" => Len(fnArgs.Groups) > 1
    /\ fnArgs' = IF fnArgs.pc = "components"
                 THEN [fnArgs EXCEPT !.pc = "actors", !.Index = 0]
                 ELSE [pc |-> "components", Groups |-> Tail(fnArgs.Groups), Index |-> 0]
    /\ lastOp' = "TickAggregator.Tick.next"
    /\ UNCHANGED <<valid, active, bCanEverTick, CurrentTimeLow, TypeBatches, GroupedBatches,
                   SpatialBatch, FreedBuffers, PendingRegistrations, PendingUnregistrations,
                   FrameCounter, Stats, bDebugMode, bVerboseDebug, crashed, TickCalls, TickLog,
                   cancelled, fnResult>>
    /\ UNCHANGED aggVars

\* The actors of the last group are done: Tick returns and releases the section
AggTickEnd ==
    /\ fnArgs.pc = "actors"
    /\ Len(fnArgs.Groups) = 1
    /\ fnArgs.Index >= Len(IteratedList(GroupedComponents, GroupedActors))
    /\ GroupedObjectsCriticalSection' = [Owner |-> "none", Count |-> 0]
    /\ fnArgs' = NoAggregatorTick
    /\ TickCalls' = TickCalls + 1
    /\ lastOp' = "TickAggregator.Tick"
    /\ UNCHANGED <<valid, active, bCanEverTick, CurrentTimeLow, TypeBatches, GroupedBatches,
                   SpatialBatch, FreedBuffers, PendingRegistrations, PendingUnregistrations,
                   FrameCounter, Stats, bDebugMode, bVerboseDebug, crashed, TickLog, cancelled,
                   fnResult, PrimaryTickGroup, GroupedComponents, GroupedActors>>

InitReenter ==
    /\ FreshWorld
    /\ CurrentTimeLow = FALSE
    /\ FreshScheduler
    /\ crashed = FALSE
    /\ TickCalls = 0
    /\ TickLog = <<>>
    /\ lastOp = "Init"
    /\ cancelled = {}
    /\ fnArgs = NoAggregatorTick
    /\ fnResult = <<>>

\* The register and unregister calls of the first four disjuncts are made by
\* another thread: each waits for the critical section
NextReenter ==
    \/ \E c \in AggObjects \cap Components : RegisterTickableComponent(c)
    \/ \E c \in AggObjects \cap Components : UnregisterTickableComponent(c)
    \/ \E a \in AggObjects \cap ActorObjects : RegisterTickableActor(a)
    \/ \E a \in AggObjects \cap ActorObjects : UnregisterTickableActor(a)
    \/ AggTickBegin
    \/ \E Call \in ReentrantCalls : AggTickObject(Call)
    \/ AggNextList
    \/ AggTickEnd

SpecReenter == InitReenter /\ [][NextReenter]_vars

\* A step taken while Tick iterates a list leaves the list as it was
C37_Step ==
    (/\ fnArgs.pc \in {"components", "actors"}
     /\ fnArgs'.pc = fnArgs.pc
     /\ fnArgs'.Groups = fnArgs.Groups) =>
        /\ IteratedList(GroupedComponents', GroupedActors')
               = IteratedList(GroupedComponents, GroupedActors)
        /\ GroupedObjectsCriticalSection'.Owner = "driver"

\* C37: in the TickAggregator subsystem no list of a group is structurally modified
\* while Tick iterates it, and Tick never waits for a critical section it cannot
\* get, whether register and unregister are called by another thread or by the
\* update of a ticked object on the driver thread
C37_NoModificationWhileIterating == [][C37_Step]_vars

=============================================================================
